---- MODULE Spec2Model ----
\* A model of the document builders of ngsildclient:
\*   api/helper/subscription.py        (SubscriptionBuilder, Subscription)
\*   api/helper/csourceregistration.py (CSourceRegistrationBuilder, RegistrationInfo)
\*   model/ngsidict.py                 (NgsiDict attribute builders)
\* Python values are tagged records, so that isinstance() tests, truthiness
\* and the difference between an object and a plain mapping stay visible.
EXTENDS Integers, Sequences, FiniteSets, TLC

VARIABLES
    subscr,     \* SubscriptionBuilder._subscr, the Subscription being assembled
    subHist,    \* history of the calls made on the subscription builder
    subLast,    \* the last call on the subscription builder and its outcome
    csourcereg, \* CSourceRegistrationBuilder._csourcereg (None before __init__)
    regHist,    \* what the registration builder was constructed and called with
    regLast,    \* the last call on the registration builder and its outcome
    doc,        \* NgsiDict.data, the document being assembled
    docLast,    \* the last call on the document and its outcome
    session,    \* the requests issued through Client.session, in order
    apiLast     \* the last call on CSourceRegistrations and its outcome

subVars == <<subscr, subHist, subLast>>
regVars == <<csourcereg, regHist, regLast>>
docVars == <<doc, docLast>>
apiVars == <<session, apiLast>>
vars == <<subscr, subHist, subLast, csourcereg, regHist, regLast, doc, docLast,
          session, apiLast>>

\* bounds of the model
MaxEntities == 2    \* select_entities calls that succeed on one builder
MaxInterval == 2    \* largest time_interval / throttling of a Subscription
MaxList == 2        \* AttrValue objects in one multi-attribute prop() call
MaxCalls == 2       \* setter calls made on one registration builder

-----------------------------------------------------------------------------
\* Python values

None == [t |-> "None"]
PyStr(s) == [t |-> "str", v |-> s]
PyInt(n) == [t |-> "int", v |-> n]
PyBool(b) == [t |-> "bool", v |-> b]
PyList(q) == [t |-> "list", v |-> q]
PyDict(f) == [t |-> "dict", v |-> f]

IsStr(x) == x.t = "str"
IsList(x) == x.t = "list"
IsDict(x) == x.t = "dict"

\* bool(x) as Python evaluates it in `if x:` / `not x`
Truthy(x) ==
    CASE x.t = "None" -> FALSE
      [] x.t = "str" -> x.v /= ""
      [] x.t = "int" -> x.v /= 0
      [] x.t = "bool" -> x.v
      [] x.t = "list" -> x.v /= <<>>
      [] x.t = "tuple" -> x.v /= <<>>
      [] x.t = "dict" -> DOMAIN x.v /= {}
      [] OTHER -> TRUE

\* d = {} ; d[k] = v ; if c: d[k] = v
EmptyDict == [k \in {} |-> None]
Put(d, k, v) == [x \in (DOMAIN d) \cup {k} |-> IF x = k THEN v ELSE d[x]]
PutIf(c, d, k, v) == IF c THEN Put(d, k, v) ELSE d
Has(d, k) == k \in DOMAIN d

\* the outcome of a call: it returns `val` with the receiver left as `self`,
\* or it raises `err` with the receiver as it was when the exception left
Return(self, val) == [ok |-> TRUE, err |-> "", self |-> self, val |-> val]
Raise(self, err) == [ok |-> FALSE, err |-> err, self |-> self, val |-> None]

\* an attribute that was never assigned: reading it raises AttributeError
Absent == [t |-> "absent"]

\* ngsildclient.model.constants.CORE_CONTEXT
CORE_CONTEXT == PyStr("https://uri.etsi.org/ngsi-ld/v1/ngsi-ld-core-context.jsonld")

\* ngsildclient.utils.url.escape, on the strings the model uses
url_escape(s) ==
    CASE s = "temperature>20 " -> "temperature%3E20%20"
      [] OTHER -> s

-----------------------------------------------------------------------------
\* api/helper/subscription.py

\* @dataclass EntitySelector(type, id=None, id_pattern=None)
EntitySelector(type, id, id_pattern) ==
    [t |-> "EntitySelector", type |-> type, id |-> id, id_pattern |-> id_pattern]

EntitySelector_to_dict(self) ==
    LET d0 == EmptyDict
        d1 == Put(d0, "type", self.type)
        d2 == PutIf(Truthy(self.id), d1, "id", self.id)
        d3 == PutIf(Truthy(self.id_pattern), d2, "idPattern", self.id_pattern)
    IN  PyDict(d3)

\* @dataclass Endpoint(uri, accept, timeout, cooldown, receiver_info, notifier_info)
Endpoint(uri, receiver_info) ==
    [t |-> "Endpoint", uri |-> uri, accept |-> PyStr("application/ld+json"),
     timeout |-> 0, cooldown |-> 0,
     receiver_info |-> receiver_info, notifier_info |-> None]

\* [{k: v} for k, v in info.items()]
InfoItems(info) ==
    LET keys == DOMAIN info.v
        RECURSIVE Items(_)
        Items(ks) ==
            IF ks = {} THEN <<>>
            ELSE LET k == CHOOSE x \in ks : TRUE
                 IN  <<PyDict(Put(EmptyDict, k, info.v[k]))>> \o Items(ks \ {k})
    IN  PyList(Items(keys))

\* the mapping d that Endpoint.to_dict assembles (lines 59-69)
Endpoint_d(self) ==
    LET d0 == EmptyDict
        d1 == Put(d0, "uri", self.uri)
        d2 == Put(d1, "accept", self.accept)
        d3 == PutIf(self.timeout > 0, d2, "timeout", PyInt(self.timeout))
        d4 == PutIf(self.cooldown > 0, d3, "cooldown", PyInt(self.cooldown))
        d5 == IF Truthy(self.receiver_info)
              THEN Put(d4, "receiverInfo", InfoItems(self.receiver_info)) ELSE d4
        d6 == IF Truthy(self.notifier_info)
              THEN Put(d5, "notifierInfo", InfoItems(self.notifier_info)) ELSE d5
    IN  PyDict(d6)

\* Endpoint.to_dict assembles d and ends without a return statement: the
\* call evaluates to None
Endpoint_to_dict(self) ==
    LET d == Endpoint_d(self)
    IN  None

\* @dataclass NotificationParams(endpoint, attrs, format, sys_attrs, show_changes)
NotificationParams(endpoint) ==
    [t |-> "NotificationParams", endpoint |-> endpoint, attrs |-> None,
     format |-> PyStr("normalized"), sys_attrs |-> FALSE, show_changes |-> FALSE]

NotificationParams_to_dict(self) ==
    LET d0 == EmptyDict
        d1 == PutIf(Truthy(self.attrs), d0, "attributes", self.attrs)
        d2 == Put(d1, "format", self.format)
        d3 == PutIf(self.sys_attrs, d2, "sysAttrs", PyBool(self.sys_attrs))
        d4 == PutIf(self.show_changes, d3, "showChanges", PyBool(self.show_changes))
        d5 == Put(d4, "endpoint", Endpoint_to_dict(self.endpoint))
    IN  PyDict(d5)

\* @dataclass Subscription(notification, ...) with the defaults of lines 96-114
Subscription(notification) ==
    [t |-> "Subscription", notification |-> notification,
     id |-> None, type |-> PyStr("Subscription"), name |-> None,
     description |-> None, entities |-> None, watched_attrs |-> None,
     notification_trigger |-> None, time_interval |-> 0, query |-> None,
     geo_query |-> None, csf |-> None, active |-> TRUE, expires_at |-> None,
     throttling |-> 0, temporal_query |-> None, scope |-> None, lang |-> None,
     ctx |-> CORE_CONTEXT]

\* to_dict() emitting throttling without looking at time_interval
Mutant_to_dict_throttling_unguarded(self) ==
    LET d0 == EmptyDict
        d1 == PutIf(Truthy(self.id), d0, "id", self.id)
        d2 == Put(d1, "type", self.type)
        d3 == PutIf(Truthy(self.name), d2, "subscriptionName", self.name)
        d4 == PutIf(Truthy(self.description), d3, "description", self.description)
        d5 == PutIf(Truthy(self.entities), d4, "entities", self.entities)
        d6 == PutIf(Truthy(self.watched_attrs), d5, "watchedAttributes",
                    self.watched_attrs)
        d7 == PutIf(Truthy(self.notification_trigger), d6, "notificationTrigger",
                    self.notification_trigger)
        d8 == PutIf(self.time_interval > 0 /\ ~Truthy(self.watched_attrs), d7,
                    "timeInterval", PyInt(self.time_interval))
        d9 == PutIf(Truthy(self.query), d8, "q", self.query)
        d10 == PutIf(Truthy(self.csf), d9, "csf", self.csf)
        d11 == PutIf(Truthy(self.expires_at), d10, "expiresAt", self.expires_at)
        d12 == PutIf(self.throttling > 0, d11,
                     "throttling", PyInt(self.throttling))
        d13 == PutIf(Truthy(self.temporal_query), d12, "temporalQ",
                     self.temporal_query)
        d14 == PutIf(Truthy(self.scope), d13, "scopeQ", self.scope)
        d15 == PutIf(Truthy(self.scope), d14, "lang", self.scope)
        d16 == Put(d15, "isActive", PyBool(self.active))
        d17 == Put(d16, "notification",
                   NotificationParams_to_dict(self.notification))
        d18 == Put(d17, "@context", self.ctx)
    IN  PyDict(d18)

Subscription_to_dict(self) ==
    LET d0 == EmptyDict
        d1 == PutIf(Truthy(self.id), d0, "id", self.id)
        d2 == Put(d1, "type", self.type)
        d3 == PutIf(Truthy(self.name), d2, "subscriptionName", self.name)
        d4 == PutIf(Truthy(self.description), d3, "description", self.description)
        d5 == PutIf(Truthy(self.entities), d4, "entities", self.entities)
        d6 == PutIf(Truthy(self.watched_attrs), d5, "watchedAttributes",
                    self.watched_attrs)
        d7 == PutIf(Truthy(self.notification_trigger), d6, "notificationTrigger",
                    self.notification_trigger)
        d8 == PutIf(self.time_interval > 0 /\ ~Truthy(self.watched_attrs), d7,
                    "timeInterval", PyInt(self.time_interval))
        d9 == PutIf(Truthy(self.query), d8, "q", self.query)
        d10 == PutIf(Truthy(self.csf), d9, "csf", self.csf)
        d11 == PutIf(Truthy(self.expires_at), d10, "expiresAt", self.expires_at)
        d12 == PutIf(self.throttling > 0 /\ ~(self.time_interval /= 0), d11,
                     "throttling", PyInt(self.throttling))
        d13 == PutIf(Truthy(self.temporal_query), d12, "temporalQ",
                     self.temporal_query)
        d14 == PutIf(Truthy(self.scope), d13, "scopeQ", self.scope)
        d15 == PutIf(Truthy(self.scope), d14, "lang", self.scope)
        d16 == Put(d15, "isActive", PyBool(self.active))
        d17 == Put(d16, "notification",
                   NotificationParams_to_dict(self.notification))
        d18 == Put(d17, "@context", self.ctx)
    IN  PyDict(d18)

\* SubscriptionBuilder.__init__(uri, receiver_headers)
SubscriptionBuilder(uri, receiver_headers) ==
    LET notification == NotificationParams(Endpoint(uri, receiver_headers))
    IN  [Subscription(notification) EXCEPT !.entities = PyList(<<>>)]

SubscriptionBuilder_id(self, value) ==
    IF ~IsStr(value) THEN Raise(self, "ValueError")
    ELSE Return([self EXCEPT !.id = value], None)

SubscriptionBuilder_name(self, value) ==
    IF ~IsStr(value) THEN Raise(self, "ValueError")
    ELSE Return([self EXCEPT !.name = value], None)

SubscriptionBuilder_description(self, value) ==
    IF ~IsStr(value) THEN Raise(self, "ValueError")
    ELSE Return([self EXCEPT !.description = value], None)

SubscriptionBuilder_select_entities(self, type, id, id_pattern) ==
    IF ~IsStr(type) THEN Raise(self, "ValueError")
    ELSE IF Truthy(id) /\ ~IsStr(id) THEN Raise(self, "ValueError")
    ELSE IF Truthy(id_pattern) /\ ~IsStr(id_pattern) THEN Raise(self, "ValueError")
    ELSE Return([self EXCEPT !.entities =
                    PyList(@.v \o <<EntitySelector(type, id, id_pattern)>>)], None)

\* watch() without its empty-list guard
Mutant_watch_stores_empty(self, value) ==
    IF ~IsList(value) THEN Raise(self, "ValueError")
    ELSE Return([self EXCEPT !.watched_attrs = value], None)

SubscriptionBuilder_watch(self, value) ==
    IF ~IsList(value) THEN Raise(self, "ValueError")
    ELSE IF value = PyList(<<>>) THEN Raise(self, "ValueError")
    ELSE Return([self EXCEPT !.watched_attrs = value], None)

SubscriptionBuilder_query(self, value) ==
    IF ~IsStr(value) THEN Raise(self, "ValueError")
    ELSE Return([self EXCEPT !.query = PyStr(url_escape(value.v))], None)

SubscriptionBuilder_notif(self, value) ==
    IF ~IsList(value) THEN Raise(self, "ValueError")
    ELSE IF value = PyList(<<>>) THEN Raise(self, "ValueError")
    ELSE Return([self EXCEPT !.notification.attrs = value], None)

SubscriptionBuilder_context(self, value) ==
    IF ~IsStr(value) THEN Raise(self, "ValueError")
    ELSE Return([self EXCEPT !.ctx = value], None)

\* build() demanding both entity selectors and watched attributes
Mutant_build_requires_both(self) ==
    IF self.entities = PyList(<<>>) \/ self.watched_attrs = None
    THEN Raise(self, "ValueError")
    ELSE Return(self, Subscription_to_dict(self))

SubscriptionBuilder_build(self) ==
    IF self.entities = PyList(<<>>) /\ self.watched_attrs = None
    THEN Raise(self, "ValueError")
    ELSE Return(self, Subscription_to_dict(self))

-----------------------------------------------------------------------------
\* The subscription builder as a state machine: one action per method

NoCall == [op |-> "none", arg |-> None, ok |-> TRUE, err |-> "", val |-> None]
Called(op, arg, r) ==
    [op |-> op, arg |-> arg, ok |-> r.ok, err |-> r.err, val |-> r.val]

Uris == {PyStr("http://recv/a"), PyStr("http://recv/b")}
ReceiverHeaders(uri) ==
    IF uri = PyStr("http://recv/a") THEN None
    ELSE PyDict("X-Auth" :> PyStr("token"))

\* arguments offered to the setters that take a string
StrArgs(s) == {PyStr(s), PyInt(5)}
\* arguments offered to select_entities
SelTypes == {PyStr("Room"), PyInt(5)}
SelIds == {None, PyStr("Room:1"), PyInt(7)}
SelPatterns == {None, PyStr(".*")}
\* arguments offered to watch and notif
AttrLists ==
    {PyList(<<>>), PyList(<<"temperature">>), PyList(<<"humidity", "co2">>),
     PyStr("temperature")}

\* the parts of the state a specification does not use
SubIdle == subscr = None /\ subHist = None /\ subLast = NoCall
RegIdle == csourcereg = None /\ regHist = None /\ regLast = NoCall
DocIdle == doc = None /\ docLast = NoCall
ApiIdle == session = <<>> /\ apiLast = NoCall

SubInit ==
    /\ \E uri \in Uris :
        /\ subscr = SubscriptionBuilder(uri, ReceiverHeaders(uri))
        /\ subHist = [uri |-> uri, sel |-> <<>>, watchOk |-> FALSE,
                      notifArg |-> None]
        /\ subLast = NoCall
    /\ RegIdle
    /\ DocIdle
    /\ ApiIdle

\* a setter that leaves the history alone; what it returns is the builder
SubSetter(op, arg, r) ==
    /\ subscr' = r.self
    /\ subLast' = Called(op, None, r)
    /\ UNCHANGED subHist

SubId ==
    \E value \in StrArgs("urn:ngsi-ld:Subscription:s1") :
        SubSetter("id", value, SubscriptionBuilder_id(subscr, value))

SubDescription ==
    \E value \in StrArgs("all rooms") :
        SubSetter("description", value,
                  SubscriptionBuilder_description(subscr, value))

SubQuery ==
    \E value \in StrArgs("temperature>20 ") :
        SubSetter("query", value, SubscriptionBuilder_query(subscr, value))

SubSelectEntities ==
    /\ Len(subscr.entities.v) < MaxEntities
    /\ \E type \in SelTypes, id \in SelIds, id_pattern \in SelPatterns :
        LET r == SubscriptionBuilder_select_entities(subscr, type, id, id_pattern)
        IN  /\ subscr' = r.self
            /\ subLast' = Called("select_entities", None, r)
            /\ subHist' = IF r.ok
                          THEN [subHist EXCEPT
                                   !.sel = @ \o <<<<type, id, id_pattern>>>>]
                          ELSE subHist

SubWatch ==
    \E value \in AttrLists :
        LET r == SubscriptionBuilder_watch(subscr, value)
        IN  /\ subscr' = r.self
            /\ subLast' = Called("watch", value, r)
            /\ subHist' = IF r.ok THEN [subHist EXCEPT !.watchOk = TRUE]
                          ELSE subHist

SubNotif ==
    \E value \in AttrLists :
        LET r == SubscriptionBuilder_notif(subscr, value)
        IN  /\ subscr' = r.self
            /\ subLast' = Called("notif", value, r)
            /\ subHist' = IF r.ok THEN [subHist EXCEPT !.notifArg = value]
                          ELSE subHist

SubBuild ==
    LET r == SubscriptionBuilder_build(subscr)
    IN  /\ subscr' = r.self
        /\ subLast' = Called("build", None, r)
        /\ UNCHANGED subHist

\* name() and context() have the shape of id() and description(); the state
\* machine offers id, description and query among the plain setters
SubNext ==
    /\ \/ SubId
       \/ SubDescription
       \/ SubQuery
       \/ SubSelectEntities
       \/ SubWatch
       \/ SubNotif
       \/ SubBuild
    /\ UNCHANGED <<regVars, docVars, apiVars>>

SubSpec == SubInit /\ [][SubNext]_vars

-----------------------------------------------------------------------------
\* Properties of the subscription builder (checked under SubSpec)

\* the plain mapping a selector given as (type, id, id_pattern) stands for
SelectorMapping(a) ==
    LET d1 == Put(EmptyDict, "type", a[1])
        d2 == PutIf(a[2] /= None, d1, "id", a[2])
        d3 == PutIf(a[3] /= None, d2, "idPattern", a[3])
    IN  PyDict(d3)

\* C1: build() raises ValueError whenever no select_entities call and no
\* watch call has succeeded on the builder, and returns a document whenever
\* at least one of them has succeeded, whatever else was called.
C1_BuildRaisesIffNothingSelected ==
    subLast.op = "build" =>
        IF subHist.sel = <<>> /\ ~subHist.watchOk
        THEN ~subLast.ok /\ subLast.err = "ValueError"
        ELSE subLast.ok /\ IsDict(subLast.val)

\* build() has returned a document for a builder on which only watch succeeded
C1_Witness ==
    /\ subLast.op = "build"
    /\ subLast.ok
    /\ subHist.sel = <<>>
    /\ subHist.watchOk

\* C5: the built document carries the notification parameters: endpoint is
\* a mapping with the constructor's uri and the accept header, format is
\* present, attributes is the list last given to notif() and is absent when
\* notif() never succeeded.
C5_NotificationCarriesParams ==
    (subLast.op = "build" /\ subLast.ok) =>
        LET n == subLast.val.v["notification"].v
        IN  /\ Has(n, "format")
            /\ IF subHist.notifArg = None THEN ~Has(n, "attributes")
               ELSE Has(n, "attributes") /\ n["attributes"] = subHist.notifArg
            /\ IsDict(n["endpoint"])
            /\ n["endpoint"].v["uri"] = subHist.uri
            /\ n["endpoint"].v["accept"] = PyStr("application/ld+json")

\* C6: the `entities` entry of the built document has one plain mapping per
\* successful select_entities call, in call order, with id / idPattern
\* present iff given; a call that raises adds none.
C6_EntitiesArePlainMappings ==
    /\ Len(subscr.entities.v) = Len(subHist.sel)
    /\ (subLast.op = "build" /\ subLast.ok /\ subHist.sel /= <<>>) =>
           LET d == subLast.val.v
           IN  /\ Has(d, "entities")
               /\ Len(d["entities"].v) = Len(subHist.sel)
               /\ \A i \in 1..Len(subHist.sel) :
                      d["entities"].v[i] = SelectorMapping(subHist.sel[i])

\* C7: watch([]) and notif([]) raise and leave the watched-attribute list
\* and the notification attribute list as they were; a builder with no
\* successful select_entities or watch still fails build().
C7_EmptyListsRejected ==
    [][ /\ (subLast'.op = "watch" /\ subLast'.arg.t = "list"
              /\ subLast'.arg.v = <<>>) =>
                (~subLast'.ok /\ subLast'.err = "ValueError"
                   /\ subscr'.watched_attrs = subscr.watched_attrs)
        /\ (subLast'.op = "notif" /\ subLast'.arg.t = "list"
              /\ subLast'.arg.v = <<>>) =>
                (~subLast'.ok /\ subLast'.err = "ValueError"
                   /\ subscr'.notification.attrs = subscr.notification.attrs)
        /\ (subLast'.op = "build" /\ subHist'.sel = <<>> /\ ~subHist'.watchOk) =>
                ~subLast'.ok
      ]_vars

\* watch([]) has just been refused on a builder with nothing selected
C7_Witness ==
    /\ subLast.op = "watch"
    /\ subLast.arg.t = "list"
    /\ subLast.arg.v = <<>>
    /\ ~subLast.ok
    /\ subHist.sel = <<>>
    /\ ~subHist.watchOk

-----------------------------------------------------------------------------
\* Subscription.to_dict on Subscription objects of every shape (DictSpec):
\* the dataclass takes time_interval, throttling, watched_attrs and entities
\* as given, without validation

Intervals == (-1)..MaxInterval

DictInit ==
    /\ \E uri \in Uris, ti \in Intervals, th \in Intervals,
          w \in {None, PyList(<<>>), PyList(<<"temperature">>)},
          e \in {None, PyList(<<EntitySelector(PyStr("Room"), None, None)>>)} :
        /\ subscr = [Subscription(NotificationParams(Endpoint(uri, None)))
                        EXCEPT !.time_interval = ti, !.throttling = th,
                               !.watched_attrs = w, !.entities = e]
        /\ subHist = [uri |-> uri, sel |-> <<>>, watchOk |-> FALSE,
                      notifArg |-> None]
        /\ subLast = NoCall
    /\ RegIdle
    /\ DocIdle
    /\ ApiIdle

DictToDict ==
    /\ subLast.op = "none"
    /\ subLast' = Called("to_dict", None,
                         Return(subscr, Subscription_to_dict(subscr)))
    /\ UNCHANGED <<subscr, subHist>>

DictNext == DictToDict /\ UNCHANGED <<regVars, docVars, apiVars>>

DictSpec == DictInit /\ [][DictNext]_vars

\* C4: whatever time_interval, throttling and watched_attrs are, to_dict()
\* never emits both timeInterval and throttling, and emits no throttling
\* when time_interval > 0.
C4_IntervalExcludesThrottling ==
    subLast.op = "to_dict" =>
        LET d == subLast.val.v
        IN  /\ ~(Has(d, "timeInterval") /\ Has(d, "throttling"))
            /\ subscr.time_interval > 0 => ~Has(d, "throttling")

\* serialized with both time_interval and throttling positive: timeInterval
\* is emitted alone
C4_Witness ==
    /\ subLast.op = "to_dict"
    /\ subscr.time_interval > 0
    /\ subscr.throttling > 0
    /\ Has(subLast.val.v, "timeInterval")
    /\ ~Has(subLast.val.v, "throttling")

-----------------------------------------------------------------------------
\* api/helper/csourceregistration.py

\* datetime and timedelta objects, carrying their ISO-8601 text
PyDatetime(iso) == [t |-> "datetime", v |-> iso]
PyTimedelta(iso) == [t |-> "timedelta", v |-> iso]
IsDatetime(x) == x.t = "datetime"
\* a (x, y, ...) tuple
PyTuple(q) == [t |-> "tuple", v |-> q]
IsTuple(x) == x.t = "tuple"

\* ngsildclient.utils.iso8601.from_datetime: the datetime as a string
iso8601_from_datetime(dt) == PyStr(dt.v)
\* isodate.duration_isoformat: the timedelta as a duration string
duration_isoformat(td) == PyStr(td.v)
\* ngsildclient.utils.url.isurl
url_isurl(x) == IsStr(x) /\ x.v = "http://cs.example/ngsi-ld"

\* geojson geometry objects; Point((lon, lat)) keeps the order it is given
Geometry(type, coordinates) ==
    [t |-> "geojson", type |-> type, coordinates |-> coordinates]
Point(xy) == Geometry("Point", xy)
\* isinstance(value, Geometry): every geojson geometry class
IsGeometry(x) == x.t = "geojson"

\* class TimeInterval
TimeInterval(start_at, end_at) ==
    IF ~IsDatetime(start_at) \/ (Truthy(end_at) /\ ~IsDatetime(end_at))
    THEN Raise(None, "ValueError")
    ELSE Return(None,
                [t |-> "TimeInterval",
                 start_at |-> iso8601_from_datetime(start_at),
                 end_at |-> IF Truthy(end_at) THEN iso8601_from_datetime(end_at)
                            ELSE None])

TimeInterval_to_dict(self) ==
    LET d0 == EmptyDict
        d1 == Put(d0, "startAt", self.start_at)
        d2 == PutIf(Truthy(self.end_at), d1, "endAt", self.end_at)
    IN  PyDict(d2)

\* class RegistrationManagementInfo: __init__ assigns an attribute only for
\* a truthy argument; local_only, cache_duration, timeout and cooldown fall
\* back to the class defaults (None), and the cooldown argument is kept
\* under the name `cooldonw`, which has no class default
RegistrationManagementInfo(local_only, cache_duration, timeout, cooldown) ==
    IF Truthy(timeout) /\ timeout.v < 0 THEN Raise(None, "ValueError")
    ELSE IF Truthy(cooldown) /\ cooldown.v < 0 THEN Raise(None, "ValueError")
    ELSE Return(None,
                [t |-> "RegistrationManagementInfo",
                 local_only |-> IF Truthy(local_only) THEN local_only ELSE None,
                 cache_duration |-> IF Truthy(cache_duration)
                                    THEN duration_isoformat(cache_duration)
                                    ELSE None,
                 timeout |-> IF Truthy(timeout) THEN timeout ELSE None,
                 cooldown |-> None,
                 cooldonw |-> IF Truthy(cooldown) THEN cooldown ELSE Absent])

RegistrationManagementInfo_to_dict(self) ==
    LET d0 == EmptyDict
        d1 == PutIf(Truthy(self.local_only), d0, "localOnly", self.local_only)
        d2 == PutIf(Truthy(self.cache_duration), d1, "cacheDuration",
                    self.cache_duration)
        d3 == PutIf(Truthy(self.timeout), d2, "timeout", self.timeout)
    IN  IF self.cooldonw = Absent THEN Raise(self, "AttributeError")
        ELSE Return(self, PyDict(PutIf(Truthy(self.cooldonw), d3, "cooldown",
                                       self.cooldonw)))

\* class RegistrationInfo.EntityInfo
EntityInfo(type, id_pattern, id) ==
    [t |-> "EntityInfo", type |-> type,
     id_pattern |-> IF Truthy(id_pattern) THEN id_pattern ELSE None,
     id |-> IF Truthy(id) THEN id ELSE None]

EntityInfo_to_dict(self) ==
    LET d0 == EmptyDict
        d1 == Put(d0, "type", self.type)
        d2 == PutIf(Truthy(self.id), d1, "id", self.id)
        d3 == PutIf(Truthy(self.id_pattern), d2, "idPattern", self.id_pattern)
    IN  PyDict(d3)

\* [f(x) for x in q]
RECURSIVE MapEntityInfo(_)
MapEntityInfo(q) ==
    IF q = <<>> THEN <<>>
    ELSE <<EntityInfo_to_dict(Head(q))>> \o MapEntityInfo(Tail(q))

\* isinstance(x, list) and len(x) == 0
IsEmptyList(x) == IsList(x) /\ Len(x.v) = 0

\* RegistrationInfo.__init__ without its empty-list guard
Mutant_RegistrationInfo_unguarded(entities, property_names, relationship_names) ==
    Return(None,
           [t |-> "RegistrationInfo",
            entities |-> IF Truthy(entities) THEN entities ELSE None,
            property_names |-> IF Truthy(property_names) THEN property_names
                               ELSE None,
            relationship_names |-> IF Truthy(relationship_names)
                                   THEN relationship_names ELSE None])

\* class RegistrationInfo
RegistrationInfo(entities, property_names, relationship_names) ==
    IF IsEmptyList(entities) \/ IsEmptyList(property_names)
         \/ IsEmptyList(relationship_names)
    THEN Raise(None, "ValueError")
    ELSE Return(None,
                [t |-> "RegistrationInfo",
                 entities |-> IF Truthy(entities) THEN entities ELSE None,
                 property_names |-> IF Truthy(property_names) THEN property_names
                                    ELSE None,
                 relationship_names |-> IF Truthy(relationship_names)
                                        THEN relationship_names ELSE None])

RegistrationInfo_to_dict(self) ==
    LET d0 == EmptyDict
        d1 == PutIf(Truthy(self.entities), d0, "entities",
                    PyList(MapEntityInfo(self.entities.v)))
        d2 == PutIf(Truthy(self.property_names), d1, "propertyNames",
                    self.property_names)
        d3 == PutIf(Truthy(self.relationship_names), d2, "relationshipNames",
                    self.relationship_names)
    IN  PyDict(d3)

RECURSIVE MapRegistrationInfo(_)
MapRegistrationInfo(q) ==
    IF q = <<>> THEN <<>>
    ELSE <<RegistrationInfo_to_dict(Head(q))>> \o MapRegistrationInfo(Tail(q))

\* @dataclass CSourceRegistration(endpoint, information, context, ...); `name`
\* is no field of the dataclass
CSourceRegistration(endpoint, information, context) ==
    [t |-> "CSourceRegistration", endpoint |-> endpoint,
     information |-> information, context |-> context, id |-> None,
     type |-> PyStr("ContextSourceRegistration"), registration_name |-> None,
     description |-> None, tenant |-> None, observation_interval |-> None,
     management_interval |-> None, location |-> None,
     observation_space |-> None, operation_space |-> None, expires_at |-> None,
     context_source_info |-> None, scope |-> None, mode |-> None,
     operations |-> None, refresh_rate |-> None, management |-> None,
     other_properties |-> None, name |-> Absent]

\* for k, v in self.other_properties.items(): d[k] = v
RECURSIVE PutAll(_, _)
PutAll(d, other) ==
    IF DOMAIN other = {} THEN d
    ELSE LET k == CHOOSE x \in DOMAIN other : TRUE
         IN  PutAll(Put(d, k, other[k]),
                    [x \in (DOMAIN other) \ {k} |-> other[x]])

\* the mapping to_dict assembles up to the management entry (lines 228-262)
CSourceRegistration_d(self) ==
    LET d0 == EmptyDict
        d1 == PutIf(Truthy(self.id), d0, "id", self.id)
        d2 == Put(d1, "type", self.type)
        d3 == PutIf(Truthy(self.registration_name), d2, "registrationName",
                    self.registration_name)
        d4 == PutIf(Truthy(self.description), d3, "description", self.description)
        d5 == IF Truthy(self.information)
              THEN Put(d4, "information",
                       PyList(MapRegistrationInfo(self.information.v)))
              ELSE d4
        d6 == PutIf(Truthy(self.tenant), d5, "tenant", self.tenant)
        d7 == IF Truthy(self.observation_interval)
              THEN Put(d6, "observationInterval",
                       TimeInterval_to_dict(self.observation_interval))
              ELSE d6
        d8 == IF Truthy(self.management_interval)
              THEN Put(d7, "managementInterval",
                       TimeInterval_to_dict(self.management_interval))
              ELSE d7
        d9 == PutIf(Truthy(self.location), d8, "location", self.location)
        d10 == PutIf(Truthy(self.observation_space), d9, "observationSpace",
                     self.observation_space)
        d11 == PutIf(Truthy(self.operation_space), d10, "operationSpace",
                     self.operation_space)
        d12 == PutIf(Truthy(self.expires_at), d11, "expiresAt", self.expires_at)
        d13 == Put(d12, "endpoint", self.endpoint)
        d14 == PutIf(Truthy(self.context_source_info), d13, "contextSourceInfo",
                     self.context_source_info)
        d15 == PutIf(Truthy(self.scope), d14, "scope", self.scope)
        d16 == PutIf(Truthy(self.mode), d15, "mode", self.mode)
        d17 == PutIf(Truthy(self.operations), d16, "operations", self.operations)
        d18 == PutIf(Truthy(self.refresh_rate), d17, "refreshRate",
                     self.refresh_rate)
    IN  d18

CSourceRegistration_to_dict(self) ==
    LET d18 == CSourceRegistration_d(self)
        m == IF Truthy(self.management)
             THEN RegistrationManagementInfo_to_dict(self.management)
             ELSE Return(None, None)
    IN  IF ~m.ok THEN Raise(self, m.err)
        ELSE LET d19 == PutIf(Truthy(self.management), d18, "management", m.val)
                 d20 == IF Truthy(self.other_properties)
                        THEN PutAll(d19, self.other_properties.v) ELSE d19
                 d21 == Put(d20, "@context", self.context)
             IN  Return(self, PyDict(d21))

\* CSourceRegistrationBuilder.__init__(endpoint, information, context)
CSourceRegistrationBuilder(endpoint, information, context) ==
    IF ~IsStr(endpoint) /\ ~url_isurl(endpoint) THEN Raise(None, "ValueError")
    ELSE IF information.t = "RegistrationInfo"
    THEN Return(CSourceRegistration(endpoint, PyList(<<information>>), context),
                None)
    ELSE IF IsList(information)
    THEN Return(CSourceRegistration(endpoint, information, context), None)
    ELSE Raise(None, "ValueError")

CSourceRegistrationBuilder_id(self, value) ==
    IF ~IsStr(value) THEN Raise(self, "ValueError")
    ELSE Return([self EXCEPT !.id = value], None)

CSourceRegistrationBuilder_registration_name(self, value) ==
    IF ~IsStr(value) THEN Raise(self, "ValueError")
    ELSE Return([self EXCEPT !.name = value], None)

CSourceRegistrationBuilder_description(self, value) ==
    IF ~IsStr(value) THEN Raise(self, "ValueError")
    ELSE Return([self EXCEPT !.description = value], None)

\* GeometryArgument keeping the (lat, lon) order of the tuple
Mutant_GeometryArgument_no_swap(value) ==
    IF ~(IsTuple(value) \/ IsGeometry(value)) THEN Raise(None, "ValueError")
    ELSE IF IsTuple(value)
    THEN IF Len(value.v) = 2
         THEN Return(None, Point(<<value.v[1], value.v[2]>>))
         ELSE Raise(None, "ValueError")
    ELSE Return(None, value)

\* the body shared by location, observation_space and operation_space:
\* the geometry to store, or the error
GeometryArgument(value) ==
    IF ~(IsTuple(value) \/ IsGeometry(value)) THEN Raise(None, "ValueError")
    ELSE IF IsTuple(value)
    THEN IF Len(value.v) = 2
         THEN LET lat == value.v[1]
                  lon == value.v[2]
              IN  Return(None, Point(<<lon, lat>>))
         ELSE Raise(None, "ValueError")
    ELSE Return(None, value)

CSourceRegistrationBuilder_location(self, value) ==
    LET g == GeometryArgument(value)
    IN  IF ~g.ok THEN Raise(self, g.err)
        ELSE Return([self EXCEPT !.location = g.val], None)

CSourceRegistrationBuilder_observation_space(self, value) ==
    LET g == GeometryArgument(value)
    IN  IF ~g.ok THEN Raise(self, g.err)
        ELSE Return([self EXCEPT !.observation_space = g.val], None)

CSourceRegistrationBuilder_operation_space(self, value) ==
    LET g == GeometryArgument(value)
    IN  IF ~g.ok THEN Raise(self, g.err)
        ELSE Return([self EXCEPT !.operation_space = g.val], None)

\* management(local_only, cache_duration, time, cooldown)
CSourceRegistrationBuilder_management(self, local_only, cache_duration, time, cooldown) ==
    LET m == RegistrationManagementInfo(local_only, cache_duration, time, cooldown)
    IN  IF ~m.ok THEN Raise(self, m.err)
        ELSE Return([self EXCEPT !.management = m.val], None)

CSourceRegistrationBuilder_other_properties(self, value) ==
    IF ~IsDict(value) THEN Raise(self, "ValueError")
    ELSE Return([self EXCEPT !.other_properties = value], None)

\* a member of one of the two enumerations, by its value
ImplementedOperation(value) == [t |-> "ImplementedOperation", value |-> PyStr(value)]
OperationsGroup(value) == [t |-> "OperationsGroup", value |-> PyStr(value)]
\* op.value can be read: op is a member of an Enum
HasValue(op) == op.t \in {"ImplementedOperation", "OperationsGroup"}
IsTimedelta(x) == x.t = "timedelta"
ModeValues == {"inclusive", "exclusive", "redirect", "auxiliary"}

CSourceRegistrationBuilder_observation_interval(self, start_at, end_at) ==
    IF ~IsDatetime(start_at) \/ ~IsDatetime(end_at) THEN Raise(self, "ValueError")
    ELSE LET i == TimeInterval(start_at, end_at)
         IN  IF ~i.ok THEN Raise(self, i.err)
             ELSE Return([self EXCEPT !.observation_interval = i.val], None)

CSourceRegistrationBuilder_management_interval(self, start_at, end_at) ==
    LET i == TimeInterval(start_at, end_at)
    IN  IF ~i.ok THEN Raise(self, i.err)
        ELSE Return([self EXCEPT !.management_interval = i.val], None)

CSourceRegistrationBuilder_expires_at(self, value) ==
    IF ~IsDatetime(value) THEN Raise(self, "ValueError")
    ELSE Return([self EXCEPT !.expires_at = iso8601_from_datetime(value)], None)

CSourceRegistrationBuilder_context_source_info(self, value) ==
    IF ~IsDict(value) THEN Raise(self, "ValueError")
    ELSE Return([self EXCEPT !.context_source_info = value], None)

CSourceRegistrationBuilder_scope(self, value) ==
    IF ~IsStr(value) /\ ~IsList(value) THEN Raise(self, "ValueError")
    ELSE Return([self EXCEPT !.scope = value], None)

\* not isinstance(value, str) and value not in [...]: a string is never
\* compared with the list
CSourceRegistrationBuilder_mode(self, value) ==
    IF ~IsStr(value) /\ ~(IsStr(value) /\ value.v \in ModeValues)
    THEN Raise(self, "ValueError")
    ELSE Return([self EXCEPT !.mode = value], None)

\* [op.value for op in value]
RECURSIVE OperationValues(_)
OperationValues(q) ==
    IF q = <<>> THEN <<>> ELSE <<Head(q).value>> \o OperationValues(Tail(q))

CSourceRegistrationBuilder_operations(self, value) ==
    IF ~IsList(value) THEN Raise(self, "ValueError")
    ELSE IF \E i \in 1..Len(value.v) : ~HasValue(value.v[i])
    THEN Raise(self, "AttributeError")
    ELSE Return([self EXCEPT !.operations = PyList(OperationValues(value.v))],
                None)

CSourceRegistrationBuilder_refresh_rate(self, value) ==
    IF ~IsTimedelta(value) THEN Raise(self, "ValueError")
    ELSE Return([self EXCEPT !.refresh_rate = duration_isoformat(value)], None)

\* build() refusing only a builder that lacks both endpoint and information
Mutant_build_requires_either(self) ==
    IF ~Truthy(self.endpoint) /\ ~Truthy(self.information)
    THEN Raise(self, "ValueError")
    ELSE Return(self, self)

\* build() returns the CSourceRegistration object itself
CSourceRegistrationBuilder_build(self) ==
    IF ~Truthy(self.endpoint) \/ ~Truthy(self.information)
    THEN Raise(self, "ValueError")
    ELSE Return(self, self)

-----------------------------------------------------------------------------
\* RegistrationInfo on every combination of its three arguments (InfoSpec)

RoomInfo == EntityInfo(PyStr("Room"), None, None)
BuildingInfo == EntityInfo(PyStr("Building"), PyStr("urn:ngsi-ld:Building:.*"), None)

InfoEntities == {None, PyList(<<>>), PyList(<<RoomInfo>>),
                 PyList(<<RoomInfo, BuildingInfo>>)}
InfoPropertyNames == {None, PyList(<<>>), PyList(<<"temperature">>),
                      PyList(<<"temperature", "humidity">>)}
InfoRelationshipNames == {None, PyList(<<>>), PyList(<<"isLocatedIn">>)}

InfoInit ==
    /\ \E e \in InfoEntities, p \in InfoPropertyNames,
          r \in InfoRelationshipNames :
        regHist = [entities |-> e, property_names |-> p,
                   relationship_names |-> r]
    /\ csourcereg = None
    /\ regLast = NoCall
    /\ SubIdle
    /\ DocIdle
    /\ ApiIdle

InfoConstruct ==
    /\ regLast.op = "none"
    /\ regLast' = Called("RegistrationInfo", None,
                         RegistrationInfo(regHist.entities,
                                          regHist.property_names,
                                          regHist.relationship_names))
    /\ UNCHANGED <<csourcereg, regHist>>

InfoToDict ==
    /\ regLast.op = "RegistrationInfo"
    /\ regLast.ok
    /\ regLast' = Called("to_dict", regLast.val,
                         Return(regLast.val,
                                RegistrationInfo_to_dict(regLast.val)))
    /\ UNCHANGED <<csourcereg, regHist>>

InfoNext ==
    /\ \/ InfoConstruct
       \/ InfoToDict
    /\ UNCHANGED <<subVars, docVars, apiVars>>

InfoSpec == InfoInit /\ [][InfoNext]_vars

\* absent (None) or a non-empty list
AbsentOrNonEmpty(x) == x = None \/ (IsList(x) /\ Len(x.v) > 0)

\* C8: constructing a RegistrationInfo with any of the three lists empty
\* raises ValueError; otherwise it succeeds, each list of the object is
\* absent or non-empty, and to_dict() puts each given list under entities /
\* propertyNames / relationshipNames.
C8_SelectorListsAbsentOrNonEmpty ==
    /\ regLast.op = "RegistrationInfo" =>
        IF PyList(<<>>) \in {regHist.entities, regHist.property_names,
                             regHist.relationship_names}
        THEN ~regLast.ok /\ regLast.err = "ValueError"
        ELSE /\ regLast.ok
             /\ regLast.val.entities = regHist.entities
             /\ regLast.val.property_names = regHist.property_names
             /\ regLast.val.relationship_names = regHist.relationship_names
             /\ AbsentOrNonEmpty(regLast.val.entities)
             /\ AbsentOrNonEmpty(regLast.val.property_names)
             /\ AbsentOrNonEmpty(regLast.val.relationship_names)
    /\ regLast.op = "to_dict" =>
        LET d == regLast.val.v
        IN  /\ Has(d, "entities") <=> regHist.entities /= None
            /\ Has(d, "propertyNames") <=> regHist.property_names /= None
            /\ Has(d, "relationshipNames") <=> regHist.relationship_names /= None
            /\ Has(d, "propertyNames") =>
                   d["propertyNames"] = regHist.property_names
            /\ Has(d, "relationshipNames") =>
                   d["relationshipNames"] = regHist.relationship_names
            /\ Has(d, "entities") =>
                   /\ Len(d["entities"].v) = Len(regHist.entities.v)
                   /\ \A i \in 1..Len(regHist.entities.v) :
                        /\ IsDict(d["entities"].v[i])
                        /\ d["entities"].v[i].v["type"] =
                               regHist.entities.v[i].type

\* a RegistrationInfo given all three lists non-empty has been serialized
C8_Witness ==
    /\ regLast.op = "to_dict"
    /\ regHist.entities = PyList(<<RoomInfo, BuildingInfo>>)
    /\ regHist.property_names = PyList(<<"temperature">>)
    /\ regHist.relationship_names /= None
    /\ Has(regLast.val.v, "propertyNames")

-----------------------------------------------------------------------------
\* The registration builder as a state machine (RegSpec)

TemperatureInfo == RegistrationInfo(None, PyList(<<"temperature">>), None).val
RoomsInfo == RegistrationInfo(PyList(<<RoomInfo>>), None, None).val

EndpointArgs == {None, PyStr(""), PyStr("http://cs.example/ngsi-ld")}
InformationArgs ==
    {TemperatureInfo, PyList(<<>>), PyList(<<TemperatureInfo, RoomsInfo>>),
     PyStr("temperature")}
\* arguments offered to location, observation_space and operation_space
GeometryArgs ==
    {PyTuple(<<48, 2>>), PyTuple(<<48, 2, 35>>), PyList(<<48, 2>>),
     Geometry("MultiPolygon", <<<<0, 0>>, <<0, 1>>, <<1, 1>>>>),
     PyStr("48,2")}
\* (local_only, cache_duration, time, cooldown) offered to management
ManagementArgs ==
    {<<None, None, None, None>>, <<PyBool(TRUE), None, None, None>>,
     <<None, None, None, PyInt(5)>>, <<None, None, PyInt(-1), None>>}
OtherPropertiesArgs ==
    {PyDict("provider" :> PyStr("acme")), PyDict("type" :> PyStr("Other")),
     PyStr("provider")}

RegInit ==
    /\ csourcereg = None
    /\ regHist = [constructed |-> FALSE, endpoint |-> None,
                  information |-> None, management |-> FALSE,
                  other_properties |-> FALSE]
    /\ regLast = NoCall
    /\ SubIdle
    /\ DocIdle
    /\ ApiIdle

RegConstruct ==
    /\ regLast.op = "none"
    /\ \E endpoint \in EndpointArgs, information \in InformationArgs :
        LET r == CSourceRegistrationBuilder(endpoint, information, CORE_CONTEXT)
        IN  /\ csourcereg' = r.self
            /\ regHist' = [regHist EXCEPT !.constructed = r.ok,
                                          !.endpoint = endpoint,
                                          !.information = information]
            /\ regLast' = Called("__init__", None, r)

\* a setter that leaves the history alone; what it returns is the builder
RegSetter(op, arg, r) ==
    /\ regHist.constructed
    /\ csourcereg' = r.self
    /\ regLast' = Called(op, arg, r)
    /\ UNCHANGED regHist

RegId ==
    \E value \in StrArgs("urn:ngsi-ld:ContextSourceRegistration:csr1") :
        RegSetter("id", None, CSourceRegistrationBuilder_id(csourcereg, value))

RegDescription ==
    \E value \in StrArgs("temperature source") :
        RegSetter("description", None,
                  CSourceRegistrationBuilder_description(csourcereg, value))

RegLocation ==
    \E value \in GeometryArgs :
        RegSetter("location", value,
                  CSourceRegistrationBuilder_location(csourcereg, value))

RegManagement ==
    /\ regHist.constructed
    /\ \E a \in ManagementArgs :
        LET r == CSourceRegistrationBuilder_management(csourcereg, a[1], a[2],
                                                       a[3], a[4])
        IN  /\ csourcereg' = r.self
            /\ regLast' = Called("management", None, r)
            /\ regHist' = [regHist EXCEPT !.management = @ \/ r.ok]

RegOtherProperties ==
    /\ regHist.constructed
    /\ \E value \in OtherPropertiesArgs :
        LET r == CSourceRegistrationBuilder_other_properties(csourcereg, value)
        IN  /\ csourcereg' = r.self
            /\ regLast' = Called("other_properties", None, r)
            /\ regHist' = [regHist EXCEPT !.other_properties = @ \/ r.ok]

RegBuild ==
    /\ regHist.constructed
    /\ LET r == CSourceRegistrationBuilder_build(csourcereg)
       IN  /\ csourcereg' = r.self
           /\ regLast' = Called("build", None, r)
           /\ UNCHANGED regHist

RegNext ==
    /\ \/ RegConstruct
       \/ RegId
       \/ RegDescription
       \/ RegLocation
       \/ RegManagement
       \/ RegOtherProperties
       \/ RegBuild
    /\ UNCHANGED <<subVars, docVars, apiVars>>

RegSpec == RegInit /\ [][RegNext]_vars

-----------------------------------------------------------------------------
\* model/ngsidict.py

\* model.constants: AttrType.<X>.value, META_ATTR_<X>, TemporalType.<X>.value
AttrType_PROP == "Property"
AttrType_GEO == "GeoProperty"
AttrType_TEMPORAL == "Property"
AttrType_REL == "Relationship"
META_ATTR_UNITCODE == "unitCode"
META_ATTR_OBSERVED_AT == "observedAt"
META_ATTR_DATASET_ID == "datasetId"
TemporalType_DATETIME == "DateTime"
TemporalType_DATE == "Date"
TemporalType_TIME == "Time"

\* the AttrValue value object
AttrValue(value, unitcode, observedat, datasetid, userdata) ==
    [t |-> "AttrValue", value |-> value, unitcode |-> unitcode,
     observedat |-> observedat, datasetid |-> datasetid, userdata |-> userdata]

\* an entity-like object, of which a relationship takes the id
Entity(id) == [t |-> "Entity", id |-> id]
IsEntity(x) == x.t = "Entity"

\* utils.urn.Urn.prefix: a string gets the NGSI-LD prefix unless it has it.
\* What the call does for None is not fixed by anything the builders
\* state: `ofNone` is that outcome (an exception, or some value).
UrnPrefix == "urn:ngsi-ld:"
Urn_prefix(value, ofNone) ==
    IF value = None THEN ofNone
    ELSE IF Len(value.v) >= Len(UrnPrefix)
              /\ SubSeq(value.v, 1, Len(UrnPrefix)) = UrnPrefix
    THEN Return(None, value)
    ELSE Return(None, PyStr(UrnPrefix \o value.v))

Urn_prefix_of_None ==
    {Raise(None, "AttributeError"), Return(None, None),
     Return(None, PyStr("urn:ngsi-ld:None"))}

\* utils.iso8601.parse: (canonical string, temporal type) of a datetime
\* object or of a date / time / date-time string; anything else is a
\* date-format error
iso8601_parse(x) ==
    IF IsDatetime(x) THEN Return(None, <<x.v, TemporalType_DATETIME>>)
    ELSE IF ~IsStr(x) THEN Raise(None, "NgsiDateFormatError")
    ELSE CASE x.v = "2024-06-01T10:00:00Z" ->
                  Return(None, <<x.v, TemporalType_DATETIME>>)
           [] x.v = "2024-06-01" -> Return(None, <<x.v, TemporalType_DATE>>)
           [] x.v = "10:00:00Z" -> Return(None, <<x.v, TemporalType_TIME>>)
           [] OTHER -> Raise(None, "NgsiDateFormatError")

\* _process_observedat accepting every temporal type
Mutant_process_observedat_any_type(observedat) ==
    LET r == iso8601_parse(observedat)
    IN  IF ~r.ok THEN r ELSE Return(None, PyStr(r.val[1]))

\* NgsiDict._process_observedat
NgsiDict_process_observedat(observedat) ==
    LET r == iso8601_parse(observedat)
    IN  IF ~r.ok THEN r
        ELSE IF r.val[2] /= TemporalType_DATETIME
        THEN Raise(None, "NgsiDateFormatError")
        ELSE Return(None, PyStr(r.val[1]))

\* NgsiDict.__ior__: self.data |= prop
NgsiDict_ior(d, prop) ==
    [k \in (DOMAIN d) \cup (DOMAIN prop) |->
        IF k \in DOMAIN prop THEN prop[k] ELSE d[k]]

\* isinstance(value, (int, float, bool, list, dict))
IsPlainValue(x) == x.t \in {"int", "float", "bool", "list", "dict"}

\* NgsiDict._build_property(attrV, escape)
NgsiDict_build_property(attrV, escape) ==
    LET value == attrV.value
    IN  IF ~(IsPlainValue(value) \/ IsStr(value))
        THEN Raise(None, "NgsiUnmatchedAttributeTypeError")
        ELSE
        LET v == IF IsPlainValue(value) THEN value
                 ELSE IF escape THEN PyStr(url_escape(value.v)) ELSE value
            p1 == Put(EmptyDict, "type", PyStr(AttrType_PROP))
            p2 == Put(p1, "value", v)
            p3 == PutIf(attrV.unitcode /= None, p2, META_ATTR_UNITCODE,
                        attrV.unitcode)
            o == IF attrV.observedat /= None
                 THEN NgsiDict_process_observedat(attrV.observedat)
                 ELSE Return(None, None)
        IN  IF ~o.ok THEN Raise(None, o.err)
            ELSE
            LET p4 == PutIf(attrV.observedat /= None, p3,
                            META_ATTR_OBSERVED_AT, o.val)
                ds == IF attrV.datasetid /= None
                      THEN Urn_prefix(attrV.datasetid, None)
                      ELSE Return(None, None)
                p5 == PutIf(attrV.datasetid /= None, p4, META_ATTR_DATASET_ID,
                            ds.val)
                p6 == IF Truthy(attrV.userdata)
                      THEN NgsiDict_ior(p5, attrV.userdata.v) ELSE p5
            IN  Return(None, PyDict(p6))

\* one turn of the loop of _m__build_property (lines 167-179)
BuildOne(v, attrtype, ofNone) ==
    LET attrkey == IF attrtype = AttrType_REL THEN "object" ELSE "value"
        val == IF attrtype = AttrType_REL
               THEN IF IsEntity(v.value) THEN Urn_prefix(v.value.id, ofNone)
                    ELSE Urn_prefix(v.value, ofNone)
               ELSE Return(None, v.value)
    IN  IF ~val.ok THEN Raise(None, val.err)
        ELSE
        LET p1 == Put(EmptyDict, "type", PyStr(attrtype))
            p2 == Put(p1, attrkey, val.val)
            ds == Urn_prefix(v.datasetid, ofNone)
        IN  IF ~ds.ok THEN Raise(None, ds.err)
            ELSE
            LET p3 == Put(p2, META_ATTR_DATASET_ID, ds.val)
                p4 == PutIf(v.unitcode /= None, p3, META_ATTR_UNITCODE,
                            v.unitcode)
                o == IF v.observedat /= None
                     THEN NgsiDict_process_observedat(v.observedat)
                     ELSE Return(None, None)
            IN  IF ~o.ok THEN Raise(None, o.err)
                ELSE
                LET p5 == PutIf(v.observedat /= None, p4,
                                META_ATTR_OBSERVED_AT, o.val)
                    p6 == IF Truthy(v.userdata)
                          THEN NgsiDict_ior(p5, v.userdata.v) ELSE p5
                IN  Return(None, PyDict(p6))

\* NgsiDict._m__build_property(values, attrtype): the list of the
\* sub-documents, or the first exception
RECURSIVE BuildAll(_, _, _)
BuildAll(values, attrtype, ofNone) ==
    IF values = <<>> THEN Return(None, <<>>)
    ELSE LET p == BuildOne(Head(values), attrtype, ofNone)
         IN  IF ~p.ok THEN p
             ELSE LET rest == BuildAll(Tail(values), attrtype, ofNone)
                  IN  IF ~rest.ok THEN rest
                      ELSE Return(None, <<p.val>> \o rest.val)

NgsiDict_m_build_property(values, attrtype, ofNone) ==
    LET r == BuildAll(values.v, attrtype, ofNone)
    IN  IF ~r.ok THEN r ELSE Return(None, PyList(r.val))

\* isinstance(value, (Point, LineString, Polygon, MultiPoint))
IsGeoPropertyGeometry(x) ==
    IsGeometry(x) /\ x.type \in {"Point", "LineString", "Polygon", "MultiPoint"}

\* NgsiDict._build_geoproperty(value, observedat, datasetid)
NgsiDict_build_geoproperty(value, observedat, datasetid) ==
    LET p1 == Put(EmptyDict, "type", PyStr(AttrType_GEO))
    IN  IF ~(IsGeoPropertyGeometry(value)
               \/ (IsTuple(value) /\ Len(value.v) = 2))
        THEN Raise(None, "NgsiUnmatchedAttributeTypeError")
        ELSE
        LET geometry == IF IsGeoPropertyGeometry(value) THEN value
                        ELSE LET lat == value.v[1]
                                 lon == value.v[2]
                             IN  Point(<<lon, lat>>)
            p2 == Put(p1, "value", geometry)
            o == IF observedat /= None
                 THEN NgsiDict_process_observedat(observedat)
                 ELSE Return(None, None)
        IN  IF ~o.ok THEN Raise(None, o.err)
            ELSE
            LET p3 == PutIf(observedat /= None, p2, META_ATTR_OBSERVED_AT, o.val)
                ds == IF datasetid /= None THEN Urn_prefix(datasetid, None)
                      ELSE Return(None, None)
                p4 == PutIf(datasetid /= None, p3, META_ATTR_DATASET_ID, ds.val)
            IN  Return(None, PyDict(p4))

\* NgsiDict._build_temporal_property(value)
NgsiDict_build_temporal_property(value) ==
    LET p1 == Put(EmptyDict, "type", PyStr(AttrType_TEMPORAL))
        r == iso8601_parse(value)
    IN  IF ~r.ok THEN Raise(None, r.err)
        ELSE LET v == Put(Put(EmptyDict, "@type", PyStr(r.val[2])),
                          "@value", PyStr(r.val[1]))
             IN  Return(None, PyDict(Put(p1, "value", PyDict(v))))

\* TargetUrn taking the id of an entity as it is
Mutant_TargetUrn_entity_id_unprefixed(v, ofNone) ==
    IF IsEntity(v) THEN Return(None, v.id) ELSE Urn_prefix(v, ofNone)

\* Urn.prefix(v.id) if isinstance(v, Entity) else Urn.prefix(v)
TargetUrn(v, ofNone) ==
    IF IsEntity(v) THEN Urn_prefix(v.id, ofNone) ELSE Urn_prefix(v, ofNone)

RECURSIVE TargetUrns(_, _)
TargetUrns(q, ofNone) ==
    IF q = <<>> THEN Return(None, <<>>)
    ELSE LET h == TargetUrn(Head(q), ofNone)
         IN  IF ~h.ok THEN h
             ELSE LET rest == TargetUrns(Tail(q), ofNone)
                  IN  IF ~rest.ok THEN rest
                      ELSE Return(None, <<h.val>> \o rest.val)

\* NgsiDict._build_relationship(value, observedat, datasetid, userdata)
NgsiDict_build_relationship(value, observedat, datasetid, userdata, ofNone) ==
    LET p1 == Put(EmptyDict, "type", PyStr(AttrType_REL))
        obj == IF IsList(value)
               THEN LET r == TargetUrns(value.v, ofNone)
                    IN  IF ~r.ok THEN r ELSE Return(None, PyList(r.val))
               ELSE TargetUrn(value, ofNone)
    IN  IF ~obj.ok THEN Raise(None, obj.err)
        ELSE
        LET p2 == Put(p1, "object", obj.val)
            o == IF observedat /= None
                 THEN NgsiDict_process_observedat(observedat)
                 ELSE Return(None, None)
        IN  IF ~o.ok THEN Raise(None, o.err)
            ELSE
            LET p3 == PutIf(observedat /= None, p2, META_ATTR_OBSERVED_AT, o.val)
                ds == IF datasetid /= None THEN Urn_prefix(datasetid, None)
                      ELSE Return(None, None)
                p4 == PutIf(datasetid /= None, p3, META_ATTR_DATASET_ID, ds.val)
                p5 == IF datasetid /= None /\ Truthy(userdata)
                      THEN NgsiDict_ior(p4, userdata.v) ELSE p4
            IN  Return(None, PyDict(p5))

\* SetItem creating the attribute before its sub-document is built
Mutant_SetItem_creates_first(self, name, built) ==
    IF ~built.ok THEN Raise(PyDict(Put(self.v, name, PyDict(EmptyDict))), built.err)
    ELSE Return(PyDict(Put(self.v, name, built.val)), built.val)

\* SetItem updating the sub-document already stored under the name
Mutant_SetItem_updates_in_place(self, name, built) ==
    IF ~built.ok THEN Raise(self, built.err)
    ELSE IF Has(self.v, name) /\ IsDict(self.v[name]) /\ IsDict(built.val)
    THEN LET merged == PyDict(NgsiDict_ior(self.v[name].v, built.val.v))
         IN  Return(PyDict(Put(self.v, name, merged)), merged)
    ELSE Return(PyDict(Put(self.v, name, built.val)), built.val)

\* self[name] = <built> ; return self[name]
SetItem(self, name, built) ==
    IF ~built.ok THEN Raise(self, built.err)
    ELSE Return(PyDict(Put(self.v, name, built.val)), built.val)

\* NgsiDict.prop(name, value, **kwargs): escape is the keyword of the
\* single-value form, attrtype the keyword of the list form
NgsiDict_prop(self, name, value, escape, attrtype, ofNone) ==
    IF IsList(value)
    THEN SetItem(self, name, NgsiDict_m_build_property(value, attrtype, ofNone))
    ELSE SetItem(self, name, NgsiDict_build_property(value, escape))

NgsiDict_gprop(self, name, value, observedat, datasetid) ==
    SetItem(self, name, NgsiDict_build_geoproperty(value, observedat, datasetid))

NgsiDict_tprop(self, name, value) ==
    SetItem(self, name, NgsiDict_build_temporal_property(value))

NgsiDict_rel(self, name, value, observedat, datasetid, userdata, ofNone) ==
    SetItem(self, name,
            NgsiDict_build_relationship(value, observedat, datasetid, userdata,
                                        ofNone))

-----------------------------------------------------------------------------
\* One attribute-building call on an NGSI document

\* documents the call is made on: NgsiDict() and NgsiDict(mapping)
InitialDocs ==
    {PyDict(EmptyDict),
     PyDict("id" :> PyStr("urn:ngsi-ld:Room:1") @@ "type" :> PyStr("Room")
            @@ "temperature" :>
                 PyDict("type" :> PyStr("Property") @@ "value" :> PyInt(5)
                        @@ "unitCode" :> PyStr("FAH")))}
AttrNames == {"temperature", "location"}

DateTimeString == PyStr("2024-06-01T10:00:00Z")
DateTimeObject == PyDatetime("2024-06-01T10:00:00Z")
\* a bare date, a time, a duration
NotDateTimes == {PyStr("2024-06-01"), PyStr("10:00:00Z"), PyStr("P1D")}
ObservedAts == {None, DateTimeString, DateTimeObject, PyStr("yesterday")}
                   \cup NotDateTimes
DatasetIds == {None, PyStr("Sensor:1"), PyStr("urn:ngsi-ld:Sensor:2")}
UnitCodes == {None, PyStr("CEL")}
UserDatas ==
    {None, PyDict(EmptyDict), PyDict("accuracy" :> PyInt(1)),
     PyDict("observedAt" :> PyStr("yesterday")),
     PyDict("object" :> PyStr("urn:ngsi-ld:Room:9") @@ "value" :> PyInt(0))}
PropValues == {PyInt(21), PyStr("temperature>20 "), None}
AttrValues ==
    {AttrValue(v, u, o, d, ud) :
        v \in PropValues, u \in UnitCodes, o \in ObservedAts,
        d \in DatasetIds, ud \in UserDatas}

\* the AttrValue objects of a multi-attribute call of the given attrtype
ListAttrValues(attrtype) ==
    {AttrValue(v, u, o, d, ud) :
        v \in (IF attrtype = AttrType_REL THEN {PyStr("Room:1")}
               ELSE {PyInt(21)}),
        u \in UnitCodes, o \in {None, DateTimeObject, PyStr("P1D")},
        d \in {None, PyStr("Sensor:1")},
        ud \in {None, PyDict("observedAt" :> PyStr("yesterday"))}}
AttrValueLists(attrtype) ==
    UNION {[1..k -> ListAttrValues(attrtype)] : k \in 0..MaxList}

RouteLine == Geometry("LineString", <<<<2, 48>>, <<3, 49>>>>)
\* values offered to gprop
GeoPropertyArgs ==
    GeometryArgs \cup {Point(<<2, 48>>), RouteLine,
                       Geometry("Polygon", <<<<0, 0>>, <<0, 1>>, <<1, 1>>>>),
                       Geometry("MultiPoint", <<<<2, 48>>, <<3, 49>>>>), None}
RelTargets ==
    {PyStr("Room:1"), PyStr("urn:ngsi-ld:Room:1"), Entity(PyStr("Room:2")),
     PyList(<<PyStr("Room:1"), Entity(PyStr("urn:ngsi-ld:Room:2"))>>),
     PyList(<<>>)}

DocInit ==
    /\ doc \in InitialDocs
    /\ docLast = NoCall
    /\ SubIdle
    /\ RegIdle
    /\ ApiIdle

\* the call and what came of it; a call that raises leaves the document
DocCall(op, arg, r) ==
    /\ doc' = r.self
    /\ docLast' = Called(op, arg, r)

DocProp ==
    /\ docLast.op = "none"
    /\ \E name \in AttrNames, value \in AttrValues, escape \in BOOLEAN :
           DocCall("prop", [name |-> name, value |-> value, escape |-> escape],
                   NgsiDict_prop(doc, name, value, escape, AttrType_PROP, None))

DocPropList ==
    /\ docLast.op = "none"
    /\ \E name \in AttrNames, attrtype \in {AttrType_PROP, AttrType_REL},
          ofNone \in Urn_prefix_of_None :
           \E values \in AttrValueLists(attrtype) :
               DocCall("prop", [name |-> name, value |-> PyList(values),
                                attrtype |-> attrtype],
                       NgsiDict_prop(doc, name, PyList(values), FALSE, attrtype,
                                     ofNone))

DocGprop ==
    /\ docLast.op = "none"
    /\ \E name \in AttrNames, value \in GeoPropertyArgs,
          observedat \in ObservedAts, datasetid \in DatasetIds :
           DocCall("gprop", [name |-> name, value |-> value,
                             observedat |-> observedat, datasetid |-> datasetid],
                   NgsiDict_gprop(doc, name, value, observedat, datasetid))

DocTprop ==
    /\ docLast.op = "none"
    /\ \E name \in AttrNames, value \in ObservedAts \ {None} :
           DocCall("tprop", [name |-> name, value |-> value],
                   NgsiDict_tprop(doc, name, value))

DocRel ==
    /\ docLast.op = "none"
    /\ \E name \in AttrNames, value \in RelTargets, observedat \in ObservedAts,
          datasetid \in DatasetIds, userdata \in UserDatas :
           DocCall("rel", [name |-> name, value |-> value,
                           observedat |-> observedat, datasetid |-> datasetid,
                           userdata |-> userdata],
                   NgsiDict_rel(doc, name, value, observedat, datasetid, userdata,
                                None))

DocNext ==
    /\ \/ DocProp
       \/ DocPropList
       \/ DocGprop
       \/ DocTprop
       \/ DocRel
    /\ UNCHANGED <<subVars, regVars, apiVars>>

DocSpec == DocInit /\ [][DocNext]_vars

\* a sub-document with its type, its one payload key, and the metadata
\* keys of exactly the metadata supplied
WellShaped(s, unitcode, observedat, datasetid) ==
    /\ IsDict(s)
    /\ Has(s.v, "type")
    /\ IF s.v["type"] = PyStr(AttrType_REL)
       THEN Has(s.v, "object") /\ ~Has(s.v, "value")
       ELSE Has(s.v, "value") /\ ~Has(s.v, "object")
    /\ Has(s.v, META_ATTR_UNITCODE) <=> unitcode /= None
    /\ Has(s.v, META_ATTR_OBSERVED_AT) <=> observedat /= None
    /\ Has(s.v, META_ATTR_DATASET_ID) <=> datasetid /= None

\* C3: every sub-document built by prop (one AttrValue or a list), gprop,
\* tprop or rel has a type key and exactly one payload key (object and no
\* value for a Relationship, value and no object otherwise), and has each
\* of unitCode, observedAt, datasetId iff the caller supplied it.
C3_TypePayloadAndSuppliedMetadata ==
    (docLast.op /= "none" /\ docLast.ok) =>
        LET a == docLast.arg
            s == docLast.val
        IN  CASE docLast.op = "prop" /\ ~IsList(a.value) ->
                    WellShaped(s, a.value.unitcode, a.value.observedat,
                               a.value.datasetid)
              [] docLast.op = "prop" /\ IsList(a.value) ->
                    /\ IsList(s)
                    /\ Len(s.v) = Len(a.value.v)
                    /\ \A i \in 1..Len(s.v) :
                          WellShaped(s.v[i], a.value.v[i].unitcode,
                                     a.value.v[i].observedat,
                                     a.value.v[i].datasetid)
              [] docLast.op = "gprop" ->
                    WellShaped(s, None, a.observedat, a.datasetid)
              [] docLast.op = "tprop" -> WellShaped(s, None, None, None)
              [] docLast.op = "rel" ->
                    WellShaped(s, None, a.observedat, a.datasetid)

\* the canonical string form of the date-times offered
CanonicalDateTime == PyStr("2024-06-01T10:00:00Z")
IsFullDateTime(o) == o \in {DateTimeString, DateTimeObject}
\* userdata naming observedAt itself
NamesObservedAt(userdata) ==
    Truthy(userdata) /\ Has(userdata.v, META_ATTR_OBSERVED_AT)
StoresCanonical(s) ==
    Has(s.v, META_ATTR_OBSERVED_AT)
        /\ s.v[META_ATTR_OBSERVED_AT] = CanonicalDateTime

-----------------------------------------------------------------------------
\* The operations that take a geometry: gprop on a document, and location,
\* observation_space, operation_space on a registration builder

RegObservationSpace ==
    \E value \in GeometryArgs :
        RegSetter("observation_space", value,
                  CSourceRegistrationBuilder_observation_space(csourcereg, value))

RegOperationSpace ==
    \E value \in GeometryArgs :
        RegSetter("operation_space", value,
                  CSourceRegistrationBuilder_operation_space(csourcereg, value))

GeoInit ==
    /\ doc \in InitialDocs
    /\ docLast = NoCall
    /\ LET endpoint == PyStr("http://cs.example/ngsi-ld")
       IN  /\ csourcereg = CSourceRegistrationBuilder(endpoint, TemperatureInfo,
                                                      CORE_CONTEXT).self
           /\ regHist = [constructed |-> TRUE, endpoint |-> endpoint,
                         information |-> TemperatureInfo, management |-> FALSE,
                         other_properties |-> FALSE]
    /\ regLast = NoCall
    /\ SubIdle
    /\ ApiIdle

GeoNext ==
    /\ \/ DocGprop /\ UNCHANGED regVars
       \/ /\ docLast.op = "none"
          /\ \/ RegLocation
             \/ RegObservationSpace
             \/ RegOperationSpace
          /\ UNCHANGED docVars
    /\ UNCHANGED <<subVars, apiVars>>

GeoSpec == GeoInit /\ [][GeoNext]_vars

IsPair(value) == IsTuple(value) /\ Len(value.v) = 2
SwappedPoint(value) == Point(<<value.v[2], value.v[1]>>)
\* the builder's field a geometry setter writes
GeometryField(b, op) ==
    CASE op = "location" -> b.location
      [] op = "observation_space" -> b.observation_space
      [] op = "operation_space" -> b.operation_space

\* C9: gprop and the builder's location / observation_space /
\* operation_space store a (lat, lon) 2-tuple as the Point of coordinates
\* [lon, lat] and a geometry object they recognize as it is (gprop, once its
\* observedat is accepted); every other argument, a tuple of another length
\* included, raises and nothing is stored.
C9_GeometryArguments ==
    [][/\ (docLast.op = "none" /\ docLast'.op = "gprop") =>
            LET a == docLast'.arg
                stored == doc'.v[a.name].v["value"]
                dated == a.observedat = None \/ IsFullDateTime(a.observedat)
            IN  CASE IsPair(a.value) ->
                        /\ dated => docLast'.ok
                        /\ docLast'.ok => stored = SwappedPoint(a.value)
                  [] IsGeoPropertyGeometry(a.value) ->
                        /\ dated => docLast'.ok
                        /\ docLast'.ok => stored = a.value
                  [] OTHER ->
                        /\ ~docLast'.ok
                        /\ docLast'.err = "NgsiUnmatchedAttributeTypeError"
       /\ ~docLast'.ok => doc' = doc
       /\ (regLast' /= regLast \/ csourcereg' /= csourcereg) =>
            LET a == regLast'.arg
                stored == GeometryField(csourcereg', regLast'.op)
                others == {op \in {"location", "observation_space",
                                   "operation_space"} : op /= regLast'.op}
            IN  /\ CASE IsPair(a) ->
                            regLast'.ok /\ stored = SwappedPoint(a)
                      [] IsGeometry(a) -> regLast'.ok /\ stored = a
                      [] OTHER -> ~regLast'.ok /\ csourcereg' = csourcereg
                /\ \A op \in others :
                       GeometryField(csourcereg', op) =
                           GeometryField(csourcereg, op)
      ]_vars

\* a (lat, lon) pair was given to gprop and to observation_space, and both
\* hold the Point [lon, lat]
C9_Witness ==
    /\ docLast.op = "gprop"
    /\ docLast.arg.value = PyTuple(<<48, 2>>)
    /\ docLast.ok
    /\ docLast.val.v["value"] = Point(<<2, 48>>)
    /\ csourcereg.observation_space = Point(<<2, 48>>)
    /\ csourcereg.location = Geometry("MultiPolygon", <<<<0, 0>>, <<0, 1>>, <<1, 1>>>>)

-----------------------------------------------------------------------------
\* the identifier each target offered to rel stands for, written out
ExpectedObject(target) ==
    CASE target = PyStr("Room:1") -> PyStr("urn:ngsi-ld:Room:1")
      [] target = PyStr("urn:ngsi-ld:Room:1") -> PyStr("urn:ngsi-ld:Room:1")
      [] target = Entity(PyStr("Room:2")) -> PyStr("urn:ngsi-ld:Room:2")
      [] target = Entity(PyStr("urn:ngsi-ld:Room:2")) ->
             PyStr("urn:ngsi-ld:Room:2")
\* the userdata is merged and names key k itself
MergesKey(a, k) ==
    a.datasetid /= None /\ Truthy(a.userdata) /\ Has(a.userdata.v, k)

KeepsReserved(s, plain) ==
    \A k \in DOMAIN plain.v : Has(s.v, k) /\ s.v[k] = plain.v[k]

\* C12: merging userdata onto a built sub-document never overwrites type,
\* the payload key, or a unitCode / observedAt / datasetId that was set:
\* they keep the values the builder computed, also when the userdata has
\* entries with those keys.
C12_UserdataKeepsReservedKeys ==
    (docLast.op \in {"prop", "rel"} /\ docLast.ok) =>
        LET a == docLast.arg
            s == docLast.val
        IN  CASE docLast.op = "prop" /\ ~IsList(a.value) ->
                    KeepsReserved(s,
                        NgsiDict_build_property(
                            [a.value EXCEPT !.userdata = None], a.escape).val)
              [] docLast.op = "prop" /\ IsList(a.value) ->
                    \A i \in 1..Len(a.value.v) :
                        a.value.v[i].datasetid /= None =>
                            KeepsReserved(s.v[i],
                                BuildOne([a.value.v[i] EXCEPT !.userdata = None],
                                         a.attrtype, None).val)
              [] docLast.op = "rel" ->
                    KeepsReserved(s,
                        NgsiDict_build_relationship(a.value, a.observedat,
                                                    a.datasetid, None, None).val)

-----------------------------------------------------------------------------
\* Attribute-building calls made one after another on one NGSI document

CallsAttrValues ==
    {AttrValue(v, u, o, None, ud) :
        v \in {PyInt(21), None}, u \in UnitCodes, o \in {None, PyStr("P1D")},
        ud \in {PyDict("accuracy" :> PyInt(1))}}
CallsAttrValueLists ==
    {<<AttrValue(PyInt(21), None, None, PyStr("Sensor:1"), None)>>,
     <<AttrValue(PyInt(21), None, None, PyStr("Sensor:1"), None),
       AttrValue(PyInt(22), None, PyStr("P1D"), PyStr("Sensor:2"), None)>>}

CallsProp ==
    \E name \in AttrNames, value \in CallsAttrValues :
        DocCall("prop", [name |-> name, value |-> value, escape |-> FALSE],
                NgsiDict_prop(doc, name, value, FALSE, AttrType_PROP, None))

CallsPropList ==
    \E name \in AttrNames, values \in CallsAttrValueLists :
        DocCall("prop", [name |-> name, value |-> PyList(values),
                         attrtype |-> AttrType_PROP],
                NgsiDict_prop(doc, name, PyList(values), FALSE, AttrType_PROP,
                              None))

CallsGprop ==
    \E name \in AttrNames, value \in {PyTuple(<<48, 2>>), PyStr("48,2")},
       observedat \in {None, DateTimeObject, PyStr("2024-06-01")} :
        DocCall("gprop", [name |-> name, value |-> value,
                          observedat |-> observedat, datasetid |-> None],
                NgsiDict_gprop(doc, name, value, observedat, None))

CallsTprop ==
    \E name \in AttrNames, value \in {DateTimeString, PyStr("yesterday")} :
        DocCall("tprop", [name |-> name, value |-> value],
                NgsiDict_tprop(doc, name, value))

CallsRel ==
    \E name \in AttrNames, value \in {PyStr("Room:1"), Entity(PyStr("Room:2"))},
       observedat \in {None, PyStr("P1D")},
       datasetid \in {None, PyStr("Sensor:1")},
       userdata \in {PyDict("accuracy" :> PyInt(1))} :
        DocCall("rel", [name |-> name, value |-> value,
                        observedat |-> observedat, datasetid |-> datasetid,
                        userdata |-> userdata],
                NgsiDict_rel(doc, name, value, observedat, datasetid, userdata,
                             None))

CallsNext ==
    /\ \/ CallsProp
       \/ CallsPropList
       \/ CallsGprop
       \/ CallsTprop
       \/ CallsRel
    /\ UNCHANGED <<subVars, regVars, apiVars>>

CallsSpec == DocInit /\ [][CallsNext]_vars

\* the sub-document the call recorded in `last` builds, whatever the
\* document it is made on
NewlyBuilt(last) ==
    LET a == last.arg
    IN  CASE last.op = "prop" /\ ~IsList(a.value) ->
                NgsiDict_build_property(a.value, a.escape).val
          [] last.op = "prop" /\ IsList(a.value) ->
                NgsiDict_m_build_property(a.value, a.attrtype, None).val
          [] last.op = "gprop" ->
                NgsiDict_build_geoproperty(a.value, a.observedat,
                                           a.datasetid).val
          [] last.op = "tprop" -> NgsiDict_build_temporal_property(a.value).val
          [] last.op = "rel" ->
                NgsiDict_build_relationship(a.value, a.observedat, a.datasetid,
                                            a.userdata, None).val

\* C13: in any sequence of prop / gprop / tprop / rel calls on one
\* document, a successful call naming attribute n sets exactly key n: the
\* other top-level keys stay with their values, and under n stands exactly
\* the newly built sub-document, with no key of an earlier one surviving.
C13_SetsExactlyTheNamedKey ==
    [][docLast'.ok =>
          LET n == docLast'.arg.name
          IN  /\ DOMAIN doc'.v = (DOMAIN doc.v) \cup {n}
              /\ \A k \in (DOMAIN doc.v) \ {n} : doc'.v[k] = doc.v[k]
              /\ doc'.v[n] = NewlyBuilt(docLast')
              /\ docLast'.val = doc'.v[n]
      ]_vars

\* gprop replaced the Property stored under temperature (which had a
\* unitCode) by a GeoProperty, after another call had added location
C13_Witness ==
    /\ docLast.op = "gprop"
    /\ docLast.ok
    /\ docLast.arg.name = "temperature"
    /\ Has(doc.v, "id")
    /\ Has(doc.v, "location")
    /\ doc.v["temperature"].v["type"] = PyStr("GeoProperty")
    /\ ~Has(doc.v["temperature"].v, "unitCode")

\* C19: a call of prop, gprop, tprop or rel that raises (unmatched
\* attribute type, date-format error on the value or on observedAt, also on
\* a later element of a list) leaves the document with exactly the keys and
\* values it had: the named attribute is neither created nor altered.
C19_FailedCallLeavesDocument ==
    [][(docLast'.op \in {"prop", "gprop", "tprop", "rel"} /\ ~docLast'.ok) =>
          /\ docLast'.err \in {"NgsiUnmatchedAttributeTypeError",
                               "NgsiDateFormatError", "AttributeError"}
          /\ doc' = doc
      ]_vars

\* prop raised on the second AttrValue of a list, for an attribute the
\* document already had
C19_Witness ==
    /\ docLast.op = "prop"
    /\ ~docLast.ok
    /\ docLast.err = "NgsiDateFormatError"
    /\ docLast.arg.name = "temperature"
    /\ IsList(docLast.arg.value)
    /\ Len(docLast.arg.value.v) = 2
    /\ docLast.arg.value.v[1].observedat = None
    /\ docLast.arg.value.v[2].observedat = PyStr("P1D")
    /\ Has(doc.v, "temperature")
    /\ doc.v["temperature"].v["unitCode"] = PyStr("FAH")

-----------------------------------------------------------------------------
\* The setters of the optional fields of a registration, called one after
\* another on a builder, and the document the registration serializes to

OptionalKeys ==
    {"id", "registrationName", "description", "observationInterval",
     "managementInterval", "location", "observationSpace", "operationSpace",
     "expiresAt", "contextSourceInfo", "scope", "mode", "operations",
     "refreshRate", "management"}
StartAt == PyDatetime("2024-06-01T10:00:00Z")
EndAt == PyDatetime("2024-07-01T10:00:00Z")
\* (start_at, end_at) offered to the interval setters
IntervalArgs == {<<StartAt, EndAt>>, <<EndAt, None>>, <<PyStr("2024"), None>>}
SpaceArgs ==
    {PyTuple(<<48, 2>>), PyTuple(<<48, 2, 35>>),
     Geometry("MultiPolygon", <<<<0, 0>>, <<0, 1>>, <<1, 1>>>>)}
ModeArgs == {PyStr("exclusive"), PyStr("bogus"), PyInt(5)}
OperationsArgs ==
    {PyList(<<ImplementedOperation("createEntity"),
              OperationsGroup("federationOps")>>),
     PyList(<<OperationsGroup("retrieveOps"),
              ImplementedOperation("createEntity")>>),
     PyList(<<ImplementedOperation("createEntity"), PyStr("mergeEntity")>>),
     PyStr("createEntity"), PyList(<<>>)}
\* (local_only, cache_duration, time, cooldown) offered to management
FullManagementArgs ==
    {None, PyBool(TRUE)} \X {None, PyTimedelta("PT1H")}
        \X {None, PyInt(30), PyInt(-1)} \X {None, PyInt(5), PyInt(-1)}

FieldsInit ==
    /\ LET endpoint == PyStr("http://cs.example/ngsi-ld")
       IN  /\ csourcereg = CSourceRegistrationBuilder(endpoint, TemperatureInfo,
                                                      CORE_CONTEXT).self
           /\ regHist = [constructed |-> TRUE, endpoint |-> endpoint,
                         information |-> TemperatureInfo, management |-> FALSE,
                         other_properties |-> FALSE, calls |-> 0,
                         last |-> [k \in OptionalKeys |-> None]]
    /\ regLast = NoCall
    /\ SubIdle
    /\ DocIdle
    /\ ApiIdle

\* a setter call: the history keeps, per wire key, the argument of the
\* last call of the key's setter that returned and was given a value that
\* is not empty
FieldsSetter(op, key, arg, r) ==
    /\ csourcereg' = r.self
    /\ regLast' = Called(op, arg, r)
    /\ regHist' = [regHist EXCEPT !.calls = @ + 1,
                                  !.last[key] = IF r.ok /\ Truthy(arg) THEN arg
                                                ELSE @]

FieldsId ==
    /\ regHist.calls < MaxCalls
    /\ \E value \in StrArgs("urn:ngsi-ld:ContextSourceRegistration:csr1") :
           FieldsSetter("id", "id", value,
                        CSourceRegistrationBuilder_id(csourcereg, value))

FieldsRegistrationName ==
    /\ regHist.calls < MaxCalls
    /\ \E value \in StrArgs("weather") :
           FieldsSetter("registration_name", "registrationName", value,
               CSourceRegistrationBuilder_registration_name(csourcereg, value))

FieldsDescription ==
    /\ regHist.calls < MaxCalls
    /\ \E value \in StrArgs("temperature source") \cup {PyStr("")} :
           FieldsSetter("description", "description", value,
               CSourceRegistrationBuilder_description(csourcereg, value))

FieldsObservationInterval ==
    /\ regHist.calls < MaxCalls
    /\ \E a \in IntervalArgs :
           FieldsSetter("observation_interval", "observationInterval",
               PyTuple(a),
               CSourceRegistrationBuilder_observation_interval(csourcereg,
                                                               a[1], a[2]))

FieldsManagementInterval ==
    /\ regHist.calls < MaxCalls
    /\ \E a \in IntervalArgs :
           FieldsSetter("management_interval", "managementInterval",
               PyTuple(a),
               CSourceRegistrationBuilder_management_interval(csourcereg,
                                                              a[1], a[2]))

FieldsLocation ==
    /\ regHist.calls < MaxCalls
    /\ \E value \in SpaceArgs :
           FieldsSetter("location", "location", value,
               CSourceRegistrationBuilder_location(csourcereg, value))

FieldsObservationSpace ==
    /\ regHist.calls < MaxCalls
    /\ \E value \in SpaceArgs :
           FieldsSetter("observation_space", "observationSpace", value,
               CSourceRegistrationBuilder_observation_space(csourcereg, value))

FieldsOperationSpace ==
    /\ regHist.calls < MaxCalls
    /\ \E value \in SpaceArgs :
           FieldsSetter("operation_space", "operationSpace", value,
               CSourceRegistrationBuilder_operation_space(csourcereg, value))

FieldsExpiresAt ==
    /\ regHist.calls < MaxCalls
    /\ \E value \in {EndAt, PyStr("2024-07-01")} :
           FieldsSetter("expires_at", "expiresAt", value,
               CSourceRegistrationBuilder_expires_at(csourcereg, value))

FieldsContextSourceInfo ==
    /\ regHist.calls < MaxCalls
    /\ \E value \in {PyDict("vendor" :> PyStr("acme")), PyDict(EmptyDict),
                     PyStr("vendor")} :
           FieldsSetter("context_source_info", "contextSourceInfo", value,
               CSourceRegistrationBuilder_context_source_info(csourcereg, value))

FieldsScope ==
    /\ regHist.calls < MaxCalls
    /\ \E value \in {PyStr("/rooms"), PyList(<<PyStr("/rooms"), PyStr("/halls")>>),
                     PyInt(5)} :
           FieldsSetter("scope", "scope", value,
               CSourceRegistrationBuilder_scope(csourcereg, value))

FieldsMode ==
    /\ regHist.calls < MaxCalls
    /\ \E value \in ModeArgs :
           FieldsSetter("mode", "mode", value,
               CSourceRegistrationBuilder_mode(csourcereg, value))

FieldsOperations ==
    /\ regHist.calls < MaxCalls
    /\ \E value \in OperationsArgs :
           FieldsSetter("operations", "operations", value,
               CSourceRegistrationBuilder_operations(csourcereg, value))

FieldsRefreshRate ==
    /\ regHist.calls < MaxCalls
    /\ \E value \in {PyTimedelta("PT1H"), PyStr("PT1H")} :
           FieldsSetter("refresh_rate", "refreshRate", value,
               CSourceRegistrationBuilder_refresh_rate(csourcereg, value))

FieldsManagement ==
    /\ regHist.calls < MaxCalls
    /\ \E a \in FullManagementArgs :
           FieldsSetter("management", "management", PyTuple(a),
               CSourceRegistrationBuilder_management(csourcereg, a[1], a[2],
                                                     a[3], a[4]))

FieldsNext ==
    /\ \/ FieldsId
       \/ FieldsRegistrationName
       \/ FieldsDescription
       \/ FieldsObservationInterval
       \/ FieldsManagementInterval
       \/ FieldsLocation
       \/ FieldsObservationSpace
       \/ FieldsOperationSpace
       \/ FieldsExpiresAt
       \/ FieldsContextSourceInfo
       \/ FieldsScope
       \/ FieldsMode
       \/ FieldsOperations
       \/ FieldsRefreshRate
       \/ FieldsManagement
    /\ UNCHANGED <<subVars, docVars, apiVars>>

FieldsSpec == FieldsInit /\ [][FieldsNext]_vars

\* the value a field has on the wire, from the arguments of its setter
WireInterval(a) ==
    PyDict(IF a.v[2] = None THEN "startAt" :> PyStr(a.v[1].v)
           ELSE "startAt" :> PyStr(a.v[1].v) @@ "endAt" :> PyStr(a.v[2].v))
WireManagement(a) ==
    PyDict([k \in {k \in {"localOnly", "cacheDuration", "timeout", "cooldown"} :
                     CASE k = "localOnly" -> a.v[1] /= None
                       [] k = "cacheDuration" -> a.v[2] /= None
                       [] k = "timeout" -> a.v[3] /= None
                       [] k = "cooldown" -> a.v[4] /= None} |->
               CASE k = "localOnly" -> a.v[1]
                 [] k = "cacheDuration" -> PyStr(a.v[2].v)
                 [] k = "timeout" -> a.v[3]
                 [] k = "cooldown" -> a.v[4]])
WireValue(key, a) ==
    CASE key \in {"observationInterval", "managementInterval"} -> WireInterval(a)
      [] key \in {"location", "observationSpace", "operationSpace"} ->
             IF IsTuple(a) THEN Point(<<a.v[2], a.v[1]>>) ELSE a
      [] key \in {"expiresAt", "refreshRate"} -> PyStr(a.v)
      [] key = "operations" -> PyList([i \in 1..Len(a.v) |-> a.v[i].value])
      [] key = "management" -> WireManagement(a)
      [] OTHER -> a

\* C14: after any sequence of setter calls the registration serializes to
\* a document that has the wire key of an optional field iff the field's
\* setter was called (and returned) with a non-empty value, the value under
\* the key being the one derived from the last such call.
C14_OptionalFieldsSerializeIffSet ==
    LET m == CSourceRegistration_to_dict(csourcereg)
    IN  /\ m.ok
        /\ \A k \in OptionalKeys :
               IF regHist.last[k] /= None
               THEN Has(m.val.v, k) /\ m.val.v[k] = WireValue(k, regHist.last[k])
               ELSE ~Has(m.val.v, k)

\* C15: mode(v) with v outside inclusive / exclusive / redirect /
\* auxiliary, and operations(l) with l not a list or with an element that
\* is no member of ImplementedOperation or OperationsGroup, raise
\* ValueError at once and leave the mode / operations field as it was;
\* operations(l) with members stores their wire strings in the same order.
C15_ClosedEnumerationsEnforced ==
    [][/\ regLast'.op = "mode" =>
            LET v == regLast'.arg
            IN  IF IsStr(v) /\ v.v \in ModeValues
                THEN regLast'.ok /\ csourcereg'.mode = v
                ELSE /\ ~regLast'.ok
                     /\ regLast'.err = "ValueError"
                     /\ csourcereg'.mode = csourcereg.mode
       /\ regLast'.op = "operations" =>
            LET l == regLast'.arg
            IN  IF IsList(l) /\ \A i \in 1..Len(l.v) : HasValue(l.v[i])
                THEN /\ regLast'.ok
                     /\ csourcereg'.operations =
                            PyList([i \in 1..Len(l.v) |-> l.v[i].value])
                ELSE /\ ~regLast'.ok
                     /\ regLast'.err = "ValueError"
                     /\ csourcereg'.operations = csourcereg.operations
      ]_vars

\* C20: a registration whose management info was set through
\* management(...) always serializes, whichever of local_only,
\* cache_duration, timeout and cooldown were supplied, and its management
\* mapping has cooldown iff a positive cooldown was supplied (localOnly,
\* cacheDuration, timeout iff supplied); a negative timeout or cooldown is
\* refused by the call.
C20_ManagementAlwaysSerializes ==
    regLast.op = "management" =>
        LET a == regLast.arg.v
            negative == \/ a[3] /= None /\ a[3].v < 0
                        \/ a[4] /= None /\ a[4].v < 0
            m == CSourceRegistration_to_dict(csourcereg)
        IN  IF negative THEN ~regLast.ok /\ regLast.err = "ValueError"
            ELSE /\ regLast.ok
                 /\ m.ok
                 /\ Has(m.val.v, "management")
                 /\ LET g == m.val.v["management"].v
                    IN  /\ Has(g, "cooldown") <=> (a[4] /= None /\ a[4].v > 0)
                        /\ Has(g, "localOnly") <=> a[1] /= None
                        /\ Has(g, "cacheDuration") <=> a[2] /= None
                        /\ Has(g, "timeout") <=> a[3] /= None
                        /\ m.val.v["management"] = WireManagement(regLast.arg)

-----------------------------------------------------------------------------
\* build() and the setter calls that follow it, on both builders.
\* The history keeps under `built` what the last build() returned, as it
\* was when build() returned.

SnapshotInit ==
    /\ \E uri \in Uris :
        /\ subscr = SubscriptionBuilder(uri, ReceiverHeaders(uri))
        /\ subHist = [uri |-> uri, sel |-> <<>>, watchOk |-> FALSE,
                      notifArg |-> None, built |-> None]
    /\ subLast = NoCall
    /\ LET endpoint == PyStr("http://cs.example/ngsi-ld")
       IN  /\ csourcereg = CSourceRegistrationBuilder(endpoint, TemperatureInfo,
                                                      CORE_CONTEXT).self
           /\ regHist = [constructed |-> TRUE, endpoint |-> endpoint,
                         information |-> TemperatureInfo, management |-> FALSE,
                         other_properties |-> FALSE, built |-> None]
    /\ regLast = NoCall
    /\ DocIdle
    /\ ApiIdle

SnapshotSubBuild ==
    LET r == SubscriptionBuilder_build(subscr)
    IN  /\ subscr' = r.self
        /\ subLast' = Called("build", None, r)
        /\ subHist' = IF r.ok THEN [subHist EXCEPT !.built = r.val] ELSE subHist

SnapshotRegBuild ==
    LET r == CSourceRegistrationBuilder_build(csourcereg)
    IN  /\ csourcereg' = r.self
        /\ regLast' = Called("build", None, r)
        /\ regHist' = IF r.ok THEN [regHist EXCEPT !.built = r.val] ELSE regHist

\* the calls are made on one builder or on the other
SnapshotNext ==
    /\ \/ /\ regLast.op = "none"
          /\ \/ SubId
             \/ SubSelectEntities
             \/ SubWatch
             \/ SnapshotSubBuild
          /\ UNCHANGED regVars
       \/ /\ subLast.op = "none"
          /\ \/ RegId
             \/ RegDescription
             \/ SnapshotRegBuild
          /\ UNCHANGED subVars
    /\ UNCHANGED <<docVars, apiVars>>

SnapshotSpec == SnapshotInit /\ [][SnapshotNext]_vars

\* What the result of SubscriptionBuilder.build() holds now: the mapping
\* to_dict() made is a new one, but under "entities" it has the list
\* self.entities itself (subscription.py:126), the list select_entities
\* appends to.
SubscriptionResultNow ==
    LET R == subHist.built
    IN  IF Has(R.v, "entities") THEN PyDict(Put(R.v, "entities", subscr.entities))
        ELSE R

\* What the result of CSourceRegistrationBuilder.build() holds now: build()
\* returns self._csourcereg, the object the setters assign to.
RegistrationResultNow == csourcereg

\* C16: what build() returned is an immutable snapshot: setter calls made
\* on the builder afterwards leave the result, what is reachable from it
\* (its entities list) and its to_dict() form as they were when build()
\* returned, for SubscriptionBuilder and for CSourceRegistrationBuilder.
C16_BuildResultIsSnapshot ==
    /\ subHist.built /= None => SubscriptionResultNow = subHist.built
    /\ regHist.built /= None =>
          /\ RegistrationResultNow = regHist.built
          /\ CSourceRegistration_to_dict(RegistrationResultNow) =
                 CSourceRegistration_to_dict(regHist.built)

\* ---------------------------------------------------------------------
\* api/csourceregistrations.py : the context-source registration endpoint
\* ---------------------------------------------------------------------

\* a request issued through the session, and the broker's answer to it
Request(method, url, payload) ==
    [method |-> method, url |-> url, payload |-> payload]
Response(status, headers, json) ==
    [status |-> status, headers |-> headers, json |-> json]

\* the outcome of an endpoint call: the result and the session's requests
ApiReturn(requests, val) ==
    [ok |-> TRUE, err |-> "", val |-> val, session |-> requests]
ApiRaise(requests, err) ==
    [ok |-> FALSE, err |-> err, val |-> None, session |-> requests]

\* Client.raise_for_status(r): a non-2xx answer becomes a typed exception
Client_raise_for_status(r) ==
    IF r.status \in 200..299 THEN ""
    ELSE IF r.status = 404 THEN "NgsiResourceNotFoundError"
    ELSE IF r.status = 409 THEN "NgsiAlreadyExistsError"
    ELSE "NgsiApiError"

\* CSourceRegistrations.conflicts(csourcereg): return []
CSourceRegistrations_conflicts(csourcereg_dict) == PyList(<<>>)

\* the index of the last "/" of s at or before i, 0 when there is none
RECURSIVE LastSlash(_, _)
LastSlash(s, i) ==
    IF i = 0 THEN 0
    ELSE IF SubSeq(s, i, i) = "/" THEN i
    ELSE LastSlash(s, i - 1)

\* location.rsplit("/", 1)[-1]
RsplitLast(s) == SubSeq(s, LastSlash(s, Len(s)) + 1, Len(s))

\* csourcereg_dict.get(key)
DictGet(d, key) == IF Has(d.v, key) THEN d.v[key] ELSE None

\* register returning the broker's identifier without comparing it
Mutant_RegisterAnswered_accepts_any_id(self, requests, csourcereg_dict, r) ==
    LET status == Client_raise_for_status(r)
        location == DictGet(r.headers, "Location")
    IN  IF status # "" THEN ApiRaise(requests, status)
        ELSE IF location = None
        THEN IF self.ignore_errors THEN ApiReturn(requests, None)
             ELSE ApiRaise(requests, "NgsiApiError")
        ELSE ApiReturn(requests, PyStr(RsplitLast(location.v)))

\* the checks of register on the answered POST (lines 49-60)
RegisterAnswered(self, requests, csourcereg_dict, r) ==
    LET status == Client_raise_for_status(r)
        location == DictGet(r.headers, "Location")
    IN  IF status # "" THEN ApiRaise(requests, status)
        ELSE IF location = None
        THEN IF self.ignore_errors THEN ApiReturn(requests, None)
             ELSE ApiRaise(requests, "NgsiApiError")
        ELSE LET id_returned_from_broker == PyStr(RsplitLast(location.v))
                 id == DictGet(csourcereg_dict, "id")
             IN  IF id # None /\ id # id_returned_from_broker
                 THEN ApiRaise(requests, "NgsiApiError")
                 ELSE ApiReturn(requests, id_returned_from_broker)

\* CSourceRegistrations.register(csourcereg, raise_on_conflict), d being
\* the outcome of csourcereg.to_dict() (line 43) and r the broker's answer
\* to the POST
CSourceRegistrations_register(self, requests, d, raise_on_conflict, r) ==
    IF ~d.ok THEN ApiRaise(requests, d.err)
    ELSE IF raise_on_conflict /\ Truthy(CSourceRegistrations_conflicts(d.val))
    THEN ApiRaise(requests, "ValueError")
    ELSE LET post == Request("POST", self.url \o "/", d.val)
         IN  RegisterAnswered(self, Append(requests, post), d.val, r)

\* ",".join(id)
RECURSIVE StrJoin(_, _)
StrJoin(sep, q) ==
    IF q = <<>> THEN ""
    ELSE IF Len(q) = 1 THEN q[1].v
    ELSE q[1].v \o sep \o StrJoin(sep, Tail(q))

\* the arguments of query that travel as parameters under their own name
\* when truthy (lines 90-125), id apart
PlainParamNames ==
    {"type", "idPattern", "attrs", "q", "csf", "geometry", "georel",
     "coordinates", "geoproperty", "timeproperty", "timerel", "timeAt",
     "endTimeAt", "geometryProperty", "lang", "scopeQ"}
TimeProperties ==
    {PyStr("observedAt"), PyStr("createdAt"), PyStr("modifiedAt"),
     PyStr("deletedAt")}
TimeRels == {PyStr("before"), PyStr("after"), PyStr("between")}

\* query opening without the geometry and coordinates check
Mutant_QueryPreconditions_georel_alone(a) ==
    IF a.type = None /\ a.attrs = None /\ a.q = None /\ a.georel = None
    THEN "ValueError"
    ELSE ""

\* the two checks query opens with (lines 82-85)
QueryPreconditions(a) ==
    IF a.type = None /\ a.attrs = None /\ a.q = None /\ a.georel = None
    THEN "ValueError"
    ELSE IF a.georel # None /\ (a.geometry = None \/ a.coordinates = None)
    THEN "ValueError"
    ELSE ""

\* the params mapping query assembles (lines 87-125): the identifiers joined
\* when id is a non-empty list, every other argument when it is truthy
QueryParams(a) ==
    LET named == {n \in PlainParamNames : Truthy(a[n])}
        keys == IF IsList(a.id) /\ Len(a.id.v) > 0 THEN named \cup {"id"}
                ELSE named
        params == [n \in keys |->
                      IF n = "id" THEN PyStr(StrJoin(",", a.id.v)) ELSE a[n]]
    IN  IF Truthy(a.timeproperty) /\ a.timeproperty \notin TimeProperties
        THEN Raise(None, "ValueError")
        ELSE IF Truthy(a.timerel) /\ a.timerel \notin TimeRels
        THEN Raise(None, "ValueError")
        ELSE Return(None, PyDict(params))

\* the headers of the query (lines 127-132)
QueryHeaders(ctx) ==
    LET headers == ("Accept" :> PyStr("application/ld+json"))
                       @@ ("Content-Type" :> None)
        link == "<" \o ctx.v \o ">; rel=\"" \o CORE_CONTEXT.v
                    \o "\"; type=\"application/ld+json\""
    IN  PyDict(PutIf(ctx # None, headers, "Link", PyStr(link)))

\* CSourceRegistrations.query(id, type, ..., ctx), the broker answering
\* the GET with r
CSourceRegistrations_query(self, requests, a, r) ==
    LET params == QueryParams(a)
    IN  IF QueryPreconditions(a) # "" THEN ApiRaise(requests, QueryPreconditions(a))
        ELSE IF ~params.ok THEN ApiRaise(requests, params.err)
        ELSE LET get == Request("GET", self.url,
                                [params |-> params.val,
                                 headers |-> QueryHeaders(a.ctx)])
                 status == Client_raise_for_status(r)
             IN  IF status # "" THEN ApiRaise(Append(requests, get), status)
                 ELSE ApiReturn(Append(requests, get), r.json)

\* ---------------------------------------------------------------------
\* ApiSpec : one call of register or query on a CSourceRegistrations
\* endpoint, the broker's answer chosen freely
\* ---------------------------------------------------------------------

EndpointUrl == "http://broker.example/ngsi-ld/v1/csourceRegistrations"
RegistrationId == PyStr("urn:ngsi-ld:ContextSourceRegistration:csr1")
BareRegistration ==
    CSourceRegistrationBuilder(PyStr("http://cs.example/ngsi-ld"),
                               TemperatureInfo, CORE_CONTEXT).self
\* registrations handed to register: without id, with an id, and one whose
\* management policy has no cooldown
Registrations ==
    {BareRegistration,
     CSourceRegistrationBuilder_id(BareRegistration, RegistrationId).self,
     CSourceRegistrationBuilder_management(BareRegistration, PyBool(TRUE),
                                           None, None, None).self}
Locations ==
    {None,
     PyStr("/ngsi-ld/v1/csourceRegistrations/urn:ngsi-ld:ContextSourceRegistration:csr1"),
     PyStr("/ngsi-ld/v1/csourceRegistrations/urn:ngsi-ld:ContextSourceRegistration:other"),
     PyStr("urn:ngsi-ld:ContextSourceRegistration:csr1"),
     PyStr("/ngsi-ld/v1/csourceRegistrations/")}
PostResponses ==
    {Response(status, PyDict(PutIf(location # None, EmptyDict, "Location",
                                   location)), None) :
        status \in {201, 409, 500}, location \in Locations}
GetResponses ==
    {Response(200, PyDict(EmptyDict), PyList(<<PyStr("csr1")>>)),
     Response(404, PyDict(EmptyDict), None)}
\* a request the session may already have issued
EarlierRequest == Request("GET", EndpointUrl, None)

NoArguments ==
    [n \in PlainParamNames \cup {"id", "ctx"} |->
        IF n = "ctx" THEN CORE_CONTEXT ELSE None]
\* one of the arguments query hands through unexamined, at most
PassedThrough ==
    {NoArguments}
    \cup {[NoArguments EXCEPT ![n] = v] :
            n \in {"idPattern", "csf", "geoproperty", "timeAt", "endTimeAt",
                   "geometryProperty", "lang", "scopeQ"},
            v \in {PyStr("x")}}
    \cup {[NoArguments EXCEPT !.ctx = v] :
            v \in {None, PyStr("https://example.org/context.jsonld")}}
    \cup {[NoArguments EXCEPT !.lang = PyStr("")]}
IdArguments ==
    {None, PyList(<<>>), PyList(<<PyStr("urn:a"), PyStr("urn:b")>>)}
\* the arguments query examines, in every combination
Examined ==
    {[NoArguments EXCEPT !.type = type, !.attrs = attrs, !.q = q,
               !.georel = georel, !.geometry = geometry,
               !.coordinates = coordinates, !.timeproperty = timeproperty,
               !.timerel = timerel] :
        type \in {None, PyStr(""), PyStr("Room")},
        attrs \in {None, PyStr("temperature")},
        q \in {None, PyStr("temperature>20")},
        georel \in {None, PyStr("near;maxDistance==100")},
        geometry \in {None, PyStr("Point")},
        coordinates \in {None, PyStr("[2,48]")},
        timeproperty \in {None, PyStr(""), PyStr("observedAt"), PyStr("sometime")},
        timerel \in {None, PyStr("before"), PyStr("during")}}
\* the identifiers and the arguments handed through, on queries by type
\* with and without a time property
Carried ==
    {[a EXCEPT !.id = id, !.type = PyStr("Room"), !.timeproperty = timeproperty] :
        a \in PassedThrough, id \in IdArguments,
        timeproperty \in {None, PyStr("observedAt"), PyStr("sometime")}}
QueryArguments == Examined \cup Carried

ApiInit ==
    /\ session \in {<<>>, <<EarlierRequest>>}
    /\ apiLast = NoCall
    /\ SubIdle
    /\ RegIdle
    /\ DocIdle

ApiCall(op, arg, r) ==
    /\ session' = r.session
    /\ apiLast' = [op |-> op, arg |-> arg, ok |-> r.ok, err |-> r.err,
                   val |-> r.val]

ApiRegister ==
    /\ apiLast.op = "none"
    /\ \E registration \in Registrations :
        \E d \in {CSourceRegistration_to_dict(registration)} :
        \E raise_on_conflict \in BOOLEAN, ignore_errors \in BOOLEAN,
           r \in PostResponses :
            LET self == [url |-> EndpointUrl, ignore_errors |-> ignore_errors]
            IN  ApiCall("register",
                        [self |-> self, csourcereg |-> registration,
                         raise_on_conflict |-> raise_on_conflict,
                         response |-> r],
                        CSourceRegistrations_register(self, session, d,
                                                      raise_on_conflict, r))

ApiQuery ==
    /\ apiLast.op = "none"
    /\ \E a \in QueryArguments, r \in GetResponses :
        LET self == [url |-> EndpointUrl, ignore_errors |-> FALSE]
        IN  ApiCall("query", [self |-> self, args |-> a, response |-> r],
                    CSourceRegistrations_query(self, session, a, r))

ApiNext ==
    /\ \/ ApiRegister
       \/ ApiQuery
    /\ UNCHANGED <<subVars, regVars, docVars>>

ApiSpec == ApiInit /\ [][ApiNext]_vars

\* the identifier a Location header names: what follows its last "/"
NamedIdentifier(location) ==
    CASE location = PyStr("/ngsi-ld/v1/csourceRegistrations/urn:ngsi-ld:ContextSourceRegistration:csr1")
            -> PyStr("urn:ngsi-ld:ContextSourceRegistration:csr1")
      [] location = PyStr("/ngsi-ld/v1/csourceRegistrations/urn:ngsi-ld:ContextSourceRegistration:other")
            -> PyStr("urn:ngsi-ld:ContextSourceRegistration:other")
      [] location = PyStr("urn:ngsi-ld:ContextSourceRegistration:csr1")
            -> PyStr("urn:ngsi-ld:ContextSourceRegistration:csr1")
      [] location = PyStr("/ngsi-ld/v1/csourceRegistrations/") -> PyStr("")

\* the POST of a register call was answered with a success status
PostSucceeded(last) ==
    /\ last.op = "register"
    /\ CSourceRegistration_to_dict(last.arg.csourcereg).ok
    /\ last.arg.response.status \in 200..299

\* C17: once register's POST has been answered with a success status, a
\* missing Location header raises NgsiApiError unless ignore_errors is set,
\* and then None is returned; a document id that differs from the last path
\* segment of Location raises NgsiApiError; otherwise that segment is
\* returned; and in each case the session has issued exactly one more
\* request, the POST of the document, whatever the checks decide.
C17_RegisterChecksLocationAfterOnePost ==
    [][PostSucceeded(apiLast') =>
        LET arg == apiLast'.arg
            document == CSourceRegistration_to_dict(arg.csourcereg).val
            headers == arg.response.headers.v
        IN  /\ session' = Append(session, Request("POST", arg.self.url \o "/",
                                                  document))
            /\ IF ~Has(headers, "Location")
               THEN IF arg.self.ignore_errors
                    THEN apiLast'.ok /\ apiLast'.val = None
                    ELSE ~apiLast'.ok /\ apiLast'.err = "NgsiApiError"
               ELSE IF /\ Has(document.v, "id")
                       /\ document.v["id"] # NamedIdentifier(headers["Location"])
                    THEN ~apiLast'.ok /\ apiLast'.err = "NgsiApiError"
                    ELSE /\ apiLast'.ok
                         /\ apiLast'.val = NamedIdentifier(headers["Location"])]_vars

\* a register call refused for an identifier mismatch, its POST issued
C17_Witness ==
    /\ PostSucceeded(apiLast)
    /\ Has(apiLast.arg.response.headers.v, "Location")
    /\ ~apiLast.ok
    /\ session[Len(session)].method = "POST"

\* the arguments a query is refused for
Refused(a) ==
    \/ a.type = None /\ a.attrs = None /\ a.q = None /\ a.georel = None
    \/ a.georel # None /\ (a.geometry = None \/ a.coordinates = None)
    \/ Truthy(a.timeproperty)
          /\ a.timeproperty.v \notin {"observedAt", "createdAt", "modifiedAt",
                                      "deletedAt"}
    \/ Truthy(a.timerel) /\ a.timerel.v \notin {"before", "after", "between"}

\* the parameter an argument travels as: the identifiers joined by commas,
\* any other argument as it is
Travelling(a, n) ==
    IF n # "id" THEN a[n]
    ELSE IF a.id = PyList(<<PyStr("urn:a"), PyStr("urn:b")>>)
    THEN PyStr("urn:a,urn:b")
    ELSE None

\* C18: query validates before any request: with none of type, attrs, q and
\* georel given, with georel given but geometry or coordinates missing, or
\* with a timeproperty or timerel outside its allowed values, the call raises
\* ValueError and the session issues nothing; otherwise the session issues
\* exactly one request, a GET whose parameters are exactly the non-empty
\* arguments, each under its own name, the context travelling in the Link
\* header.
C18_QueryValidatesBeforeOneGet ==
    [][apiLast'.op = "query" =>
        LET a == apiLast'.arg.args
        IN  IF Refused(a)
            THEN /\ ~apiLast'.ok
                 /\ apiLast'.err = "ValueError"
                 /\ session' = session
            ELSE /\ Len(session') = Len(session) + 1
                 /\ SubSeq(session', 1, Len(session)) = session
                 /\ LET get == session'[Len(session')]
                        params == get.payload.params.v
                    IN  /\ get.method = "GET"
                        /\ get.url = apiLast'.arg.self.url
                        /\ DOMAIN params =
                               {n \in PlainParamNames \cup {"id"} : Truthy(a[n])}
                        /\ \A n \in DOMAIN params : params[n] = Travelling(a, n)
                        /\ Has(get.payload.headers.v, "Link") <=> a.ctx # None]_vars

\* a query issued with a list of identifiers, a type and a time property
C18_Witness ==
    /\ apiLast.op = "query"
    /\ apiLast.ok
    /\ Truthy(apiLast.arg.args.id)
    /\ Truthy(apiLast.arg.args.timeproperty)
    /\ Has(session[Len(session)].payload.params.v, "id")
    /\ Has(session[Len(session)].payload.params.v, "timeproperty")

\* every entry of the userdata names a key of the sub-document
CarriesUserdata(s, userdata) ==
    \A k \in DOMAIN userdata.v : Has(s.v, k)

\* C21: in rel(name, value, observedat, datasetid, userdata) a supplied,
\* non-empty userdata is merged onto the Relationship sub-document whatever
\* observedat and datasetid are, datasetid omitted included: every key of
\* the userdata is a key of the sub-document, as after prop.
C21_RelUserdataMergedWhateverDatasetId ==
    /\ (docLast.op = "rel" /\ docLast.ok /\ Truthy(docLast.arg.userdata)) =>
           CarriesUserdata(docLast.val, docLast.arg.userdata)
    /\ (/\ docLast.op = "prop"
        /\ docLast.ok
        /\ ~IsList(docLast.arg.value)
        /\ Truthy(docLast.arg.value.userdata)) =>
           CarriesUserdata(docLast.val, docLast.arg.value.userdata)

====
